---------------------------- MODULE Spec2Model ----------------------------
(***************************************************************************)
(* Verification model of guitar-tone-shootout.                             *)
(*                                                                         *)
(* The module holds one state machine per component; the components share  *)
(* no state, so each has its own specification:                            *)
(*   SpecTracker    timestamps.SegmentTracker + metadata assembly          *)
(*   SpecDiscovery  audio.find_nam_vst3, one caller at a time              *)
(*   SpecRace       audio.find_nam_vst3, several threads                   *)
(*   SpecChain      audio.process_chain / process_chain_unified            *)
(*   SpecParse      config._parse_chain / _load_signal_chains              *)
(*   SpecLevel      normalize.rms_db / peak_db / rms_linear                *)
(*   SpecPreset     preset._put_string / create_nam_state /                *)
(*                  create_vst3_preset / generate_preset_bytes             *)
(*   SpecNormalize  normalize.normalize_rms                                *)
(*   SpecMetrics    metrics.extract_metrics                                *)
(*   SpecWs         backend api/v1/ws.job_progress_ws                      *)
(*   SpecJobs       backend process_shootout_task + JobService.cancel_job  *)
(*   SpecLive       job_progress_ws watching the job of SpecJobs, with     *)
(*                  fairness of the server's steps                         *)
(*   SpecRegistry   worktree registry + cli setup / teardown / prune       *)
(*   SpecDownloader backend ModelDownloader.download_model, two callers    *)
(* A specification leaves the variables of the other components at their   *)
(* initial values.                                                         *)
(***************************************************************************)
EXTENDS Integers, Sequences, FiniteSets, TLC

VARIABLES
    \* ---- timestamps.SegmentTracker (one tracker instance) ----
    sample_rate,          \* SegmentTracker.sample_rate
    segments,             \* SegmentTracker.segments
    current_offset_ms,    \* SegmentTracker._current_offset_ms
    tracker_error,        \* exception raised by the last add_segment call, or "none"
    metadata,             \* ProcessingMetadata assembled for the job, or NoMetadata
    tracker_at_assembly,  \* history: the tracker's totals when metadata was assembled
    \* ---- audio.find_nam_vst3 (process-wide cache, environment, callers) ----
    nam_vst3_path,        \* audio._nam_vst3_path: NONE, "" or a path
    env_value,            \* os.environ.get(NAM_VST3_ENV_VAR): NONE, "" or a path
    fs,                   \* the paths that exist on the filesystem
    callers,              \* the threads that call find_nam_vst3
    pc,                   \* per thread: position inside find_nam_vst3
    local,                \* per thread: env_path, search index, found path
    call,                 \* per thread, history: facts about the call in progress
    calls_made,           \* per thread: calls started so far
    env_changes,          \* environment changes so far
    history,              \* history: facts about the completed calls
    first_result,         \* history: what the first completed call returned
    \* ---- audio.process_chain / process_chain_unified (one call) ----
    chain_entry,          \* the entry point called, or "none"
    chain_effects,        \* its chain_effects argument: effect types in order
    chain_log,            \* history: how each effect was handled, in order
    chain_result,         \* "idle", "returned" or "raised"
    \* ---- config._parse_chain / _load_signal_chains (one call) ----
    chain_str,            \* the text given to _parse_chain (characters)
    parse_result,         \* what _parse_chain returned or raised, or NotCalled
    section,              \* the [signal_chains] entries given to _load_signal_chains
    load_result,          \* what _load_signal_chains returned or raised, or NotCalled
    \* ---- normalize.py level measurement (one call) ----
    level_fn,             \* the function called, or "none"
    level_buffer,         \* its audio argument: samples
    level_result,         \* what it returned or raised
    \* ---- preset.py encoders (one call) ----
    preset_fn,            \* the function called, or "none"
    preset_args,          \* its arguments
    preset_result,        \* the bytes it returned, or the error it raised
    \* ---- normalize.normalize_rms (one call) ----
    norm_audio,           \* its audio argument: samples
    norm_target_db,       \* its target_db argument, in tenths of a dB
    norm_result,          \* the gain of the buffer it returned, or the error it raised
    \* ---- metrics.extract_metrics (one call) ----
    metrics_audio,        \* its audio argument: ndim and data
    metrics_result,       \* the AudioMetrics it returned, or NoMetrics
    \* ---- api/v1/ws.job_progress_ws (one connection) ----
    ws_pc,                \* position inside job_progress_ws
    ws_token,             \* the token query parameter
    ws_job_id,            \* the job_id path parameter
    ws_user,              \* the user verify_ws_token returned
    ws_job,               \* the job get_job_for_user returned
    ws_conn,              \* "connecting", "accepted" or "closed"
    ws_close_code,        \* the code the server closed with, or NoClose
    ws_subscribed,        \* whether the pubsub is subscribed to the job's channel
    ws_ever_subscribed,   \* history: whether it ever was
    ws_sent,              \* history: the messages sent to the client
    ws_channel,           \* messages delivered to the pubsub, not yet read
    ws_published,         \* progress messages published so far
    \* ---- job_service / tasks.shootout (one job, its task, cancel requests) ----
    job,                  \* the job's row in the jobs table
    task_pc,              \* position inside process_shootout_task
    task_error,           \* the exception the task's try block raised, or "none"
    progress_calls,       \* progress callbacks made so far
    published,            \* history: the messages published on the job's channel
    clock,                \* the time of the last write
    cancel_pc,            \* position inside JobService.cancel_job
    cancel_user,          \* the user of the cancel request
    cancel_seen,          \* the row get_job returned to it, or None
    cancel_result,        \* what cancel_job returned
    cancels_made,         \* cancel requests so far
    \* ---- api/v1/ws.py watching the job of the job model ----
    ws_cursor,            \* index in published of the next message of this subscription
    ws_snapshot,          \* status of the Job row read by get_job_for_user
    \* ---- worktree/registry.py, worktree/cli.py ----
    worktrees,            \* rows of the worktrees table
    disk,                 \* worktree names whose directory exists
    reg_pc,               \* where each process is in its command
    reg_local,            \* each process's command, its local variables and its outcome
    reg_ops,              \* commands started so far
    \* ---- services/model_downloader.py ----
    dl_cache,             \* content of the file at cache_path
    dl_temp,              \* content of the file at temp_path
    dl_pc,                \* where each caller is in download_model
    dl_local,             \* each caller's arguments, local variables and outcome
    dl_calls              \* calls started so far

trackerVars == <<sample_rate, segments, current_offset_ms, tracker_error,
                 metadata, tracker_at_assembly>>

discVars == <<nam_vst3_path, env_value, fs, callers, pc, local, call,
              calls_made, env_changes, history, first_result>>

chainVars == <<chain_entry, chain_effects, chain_log, chain_result>>

parseVars == <<chain_str, parse_result, section, load_result>>

levelVars == <<level_fn, level_buffer, level_result>>

presetVars == <<preset_fn, preset_args, preset_result>>

normVars == <<norm_audio, norm_target_db, norm_result>>

metricsVars == <<metrics_audio, metrics_result>>

wsVars == <<ws_pc, ws_token, ws_job_id, ws_user, ws_job, ws_conn, ws_close_code, ws_subscribed, ws_ever_subscribed, ws_sent, ws_channel, ws_published>>

jobVars == <<job, task_pc, task_error, progress_calls, published, clock, cancel_pc, cancel_user, cancel_seen, cancel_result, cancels_made>>

taskVars == <<task_pc, task_error, progress_calls>>

cancelVars == <<cancel_pc, cancel_user, cancel_seen, cancel_result, cancels_made>>

liveVars == <<ws_cursor, ws_snapshot>>

regVars == <<worktrees, disk, reg_pc, reg_local, reg_ops>>

dlVars == <<dl_cache, dl_temp, dl_pc, dl_local, dl_calls>>

vars == <<trackerVars, discVars, chainVars, parseVars, levelVars,
    presetVars,
    normVars,
    metricsVars,
    wsVars,
    jobVars,
    liveVars,
    regVars,
    dlVars>>

\* What an action of one component leaves alone: the other components
exceptTracker == <<discVars, chainVars, parseVars, levelVars,
    presetVars,
    normVars,
    metricsVars,
    wsVars,
    jobVars,
    liveVars,
    regVars,
    dlVars>>
exceptDiscovery == <<trackerVars, chainVars, parseVars, levelVars,
    presetVars,
    normVars,
    metricsVars,
    wsVars,
    jobVars,
    liveVars,
    regVars,
    dlVars>>
exceptChain == <<trackerVars, callers, pc, local, call, calls_made,
                 env_changes, history, first_result, parseVars, levelVars,
    presetVars,
    normVars,
    metricsVars,
    wsVars,
    jobVars,
    liveVars,
    regVars,
    dlVars>>
exceptParse == <<trackerVars, discVars, chainVars, levelVars,
    presetVars,
    normVars,
    metricsVars,
    wsVars,
    jobVars,
    liveVars,
    regVars,
    dlVars>>
exceptLevel == <<trackerVars, discVars, chainVars, parseVars,
    presetVars,
    normVars,
    metricsVars,
    wsVars,
    jobVars,
    liveVars,
    regVars,
    dlVars>>
exceptPreset == <<trackerVars, discVars, chainVars, parseVars, levelVars,
    normVars,
    metricsVars,
    wsVars,
    jobVars,
    liveVars,
    regVars,
    dlVars>>
exceptNormalize == <<trackerVars, discVars, chainVars, parseVars, levelVars, presetVars,
    metricsVars,
    wsVars,
    jobVars,
    liveVars,
    regVars,
    dlVars>>
exceptMetrics == <<trackerVars, discVars, chainVars, parseVars, levelVars, presetVars, normVars,
    wsVars,
    jobVars,
    liveVars,
    regVars,
    dlVars>>
exceptWs == <<trackerVars, discVars, chainVars, parseVars, levelVars, presetVars, normVars, metricsVars,
    jobVars,
    liveVars,
    regVars,
    dlVars>>
exceptJobs == <<trackerVars, discVars, chainVars, parseVars, levelVars, presetVars, normVars, metricsVars, wsVars,
    liveVars,
    regVars,
    dlVars>>
exceptLive == <<trackerVars, discVars, chainVars, parseVars, levelVars, presetVars, normVars, metricsVars, jobVars,
    regVars,
    dlVars>>
exceptRegistry == <<trackerVars, discVars, chainVars, parseVars, levelVars, presetVars, normVars, metricsVars, wsVars, jobVars, liveVars,
    dlVars>>
exceptDownloader == <<trackerVars, discVars, chainVars, parseVars, levelVars, presetVars, normVars, metricsVars, wsVars, jobVars, liveVars, regVars>>

-----------------------------------------------------------------------------
(* Generic helpers *)

\* Python's int() on a float: truncation toward zero (b > 0).
TruncDiv(a, b) == IF a >= 0 THEN a \div b ELSE -((-a) \div b)

Last(s) == s[Len(s)]

-----------------------------------------------------------------------------
(* timestamps.py *)

\* Bounds of the tracker model
MaxSegments == 3

SampleRates == {44100, 48000}
\* duration_samples arguments tried (add_segment validates none of them)
DurationSamples == {-4800, 1, 48000, 72001}
\* duration_ms arguments tried
DurationsMs == {-500, 0, 1000, 1500, 2000}
StartSamples == {0, 480}

\* SegmentTimestamps.from_samples with start_ms ignoring the output offset
from_samples_no_offset(position, start_sample, end_sample, rate, output_offset_ms) ==
    LET duration_samples == end_sample - start_sample
        duration_ms == TruncDiv(duration_samples * 1000, rate)
    IN  [position |-> position,
         start_ms |-> 0,
         end_ms |-> duration_ms,
         duration_ms |-> duration_ms,
         source_start_sample |-> start_sample,
         source_end_sample |-> end_sample,
         sample_rate |-> rate]

\* SegmentTimestamps.from_samples:
\*   duration_ms = int((duration_samples / sample_rate) * 1000)
from_samples(position, start_sample, end_sample, rate, output_offset_ms) ==
    LET duration_samples == end_sample - start_sample
        duration_ms == TruncDiv(duration_samples * 1000, rate)
    IN  [position |-> position,
         start_ms |-> output_offset_ms,
         end_ms |-> output_offset_ms + duration_ms,
         duration_ms |-> duration_ms,
         source_start_sample |-> start_sample,
         source_end_sample |-> end_sample,
         sample_rate |-> rate]

\* SegmentTimestamps.from_duration_ms:
\*   duration_samples = int((duration_ms / 1000) * sample_rate)
from_duration_ms(position, duration_ms, rate, output_offset_ms) ==
    [position |-> position,
     start_ms |-> output_offset_ms,
     end_ms |-> output_offset_ms + duration_ms,
     duration_ms |-> duration_ms,
     source_start_sample |-> 0,
     source_end_sample |-> TruncDiv(duration_ms * rate, 1000),
     sample_rate |-> rate]

\* SegmentTracker.total_duration_ms with the last segment's own duration
total_duration_ms_last_only(segs) ==
    IF segs = <<>> THEN 0 ELSE Last(segs).duration_ms

\* SegmentTracker.total_duration_ms (property)
total_duration_ms(segs) ==
    IF segs = <<>> THEN 0 ELSE Last(segs).end_ms

\* SegmentTracker.segment_count (property)
segment_count(segs) == Len(segs)

\* An optional argument: None is the empty tuple, a value v is <<v>>.
None == <<>>
Some(v) == <<v>>

\* SegmentTracker.add_segment(duration_samples, duration_ms, start_sample)

add_segment(duration_samples, duration_ms, start_sample) ==
    IF duration_samples = None /\ duration_ms = None
    THEN /\ tracker_error' = "ValueError"
         /\ UNCHANGED <<sample_rate, segments, current_offset_ms>>
    ELSE LET position == Len(segments)
             timestamps ==
                 IF duration_samples # None
                 THEN from_samples(position, start_sample,
                                   start_sample + duration_samples[1],
                                   sample_rate, current_offset_ms)
                 ELSE from_duration_ms(position, duration_ms[1],
                                       sample_rate, current_offset_ms)
         IN  /\ segments' = Append(segments, timestamps)
             /\ current_offset_ms' = timestamps.end_ms
             /\ tracker_error' = "none"
             /\ UNCHANGED sample_rate

-----------------------------------------------------------------------------
(* metadata.py *)

NoMetadata == [assembled |-> FALSE]

\* NormalizationSettings() defaults, in tenths of a dB
DefaultNormalization ==
    [input_target_rms_db |-> -180, output_target_rms_db |-> -140,
     method |-> "rms", headroom_db |-> -10]

\* create_processing_metadata: versions, settings and hashes are collected;
\* total_duration_ms and segment_count are not passed to ProcessingMetadata(),
\* so they take the dataclass defaults.
create_processing_metadata(rate, bit_depth, channels) ==
    [assembled |-> TRUE,
     versions |-> "collected",
     audio_settings |-> [sample_rate |-> rate, bit_depth |-> bit_depth,
                         channels |-> channels],
     normalization |-> DefaultNormalization,
     file_hashes |-> "computed",
     total_duration_ms |-> 0,
     segment_count |-> 0]

-----------------------------------------------------------------------------
(* Actions on one comparison job's tracker and metadata record *)

InitTrackerVars ==
    /\ segments = <<>>
    /\ current_offset_ms = 0
    /\ tracker_error = "none"
    /\ metadata = NoMetadata
    /\ tracker_at_assembly = [total_duration_ms |-> 0, segment_count |-> 0]

AddSegmentSamples ==
    /\ Len(segments) < MaxSegments
    /\ \E d \in DurationSamples, st \in StartSamples : add_segment(Some(d), None, st)
    /\ UNCHANGED <<metadata, tracker_at_assembly, exceptTracker>>

AddSegmentMs ==
    /\ Len(segments) < MaxSegments
    /\ \E d \in DurationsMs : add_segment(None, Some(d), 0)
    /\ UNCHANGED <<metadata, tracker_at_assembly, exceptTracker>>

AddSegmentNoDuration ==
    /\ add_segment(None, None, 0)
    /\ UNCHANGED <<metadata, tracker_at_assembly, exceptTracker>>

\* The job's metadata record is assembled once (spec 3, ProcessingMetadata).
AssembleMetadata ==
    /\ metadata = NoMetadata
    /\ metadata' = create_processing_metadata(sample_rate, 32, 2)
    /\ tracker_at_assembly' =
           [total_duration_ms |-> total_duration_ms(segments),
            segment_count |-> segment_count(segments)]
    /\ UNCHANGED <<sample_rate, segments, current_offset_ms, tracker_error,
                   exceptTracker>>

-----------------------------------------------------------------------------
(* audio.py: plugin discovery *)

\* Bounds of the discovery model
MaxCalls == 2
MaxEnvChanges == 2

\* Python's None as a value of str | None
NONE == "None"

\* Truthiness of a str | None
Truthy(v) == v # NONE /\ v # ""

NAM_VST3_SEARCH_PATHS ==
    << "/usr/lib/vst3/NeuralAmpModeler.vst3",
       "/usr/local/lib/vst3/NeuralAmpModeler.vst3",
       "~/.vst3/NeuralAmpModeler.vst3",
       "/Library/Audio/Plug-Ins/VST3/NeuralAmpModeler.vst3",
       "~/Library/Audio/Plug-Ins/VST3/NeuralAmpModeler.vst3" >>

\* A plugin location only the override variable names
EnvTarget == "/opt/nam/NeuralAmpModeler.vst3"

SearchPathSet == {NAM_VST3_SEARCH_PATHS[i] : i \in 1..Len(NAM_VST3_SEARCH_PATHS)}
AllPaths == SearchPathSet \cup {EnvTarget}
EnvValues == {NONE, "", EnvTarget}
Threads == {"t1", "t2"}

NoLocal == [env_path |-> NONE, idx |-> 0, path |-> NONE]
\* No result recorded, no particular result expected
Pending == "pending"
AnyResult == "any"

\* What a cached value makes find_nam_vst3 return (audio.py:80)
CachedResult(c) == IF Truthy(c) THEN c ELSE NONE

\* History of a call: whether it read the environment or the filesystem,
\* whether it began after some call had returned, the result the cache
\* promised when it began with no other call in flight, and the environment
\* change count when it began.
NoCall == [scanned |-> FALSE, after_return |-> FALSE, expected |-> AnyResult,
           changes_at_start |-> 0]

\* "if _nam_vst3_path:" in place of "is not None"
CacheHitTruthy(c) == Truthy(c)

\* "if _nam_vst3_path is not None" (audio.py:79)
CacheHit(c) == c # NONE

\* The call of thread t returns v.
Return(t, v) ==
    /\ history' = history \cup
           {[value |-> v,
             scanned |-> call[t].scanned,
             after_return |-> call[t].after_return,
             expected |-> call[t].expected,
             plugin_present |-> /\ call[t].changes_at_start = env_changes
                                /\ fs \cap SearchPathSet # {}]}
    /\ first_result' = IF first_result = Pending THEN v ELSE first_result
    /\ pc' = [pc EXCEPT ![t] = "idle"]
    /\ local' = [local EXCEPT ![t] = NoLocal]
    /\ call' = [call EXCEPT ![t] = NoCall]

\* A thread enters find_nam_vst3.
BeginCall(t) ==
    /\ pc[t] = "idle"
    /\ calls_made[t] < MaxCalls
    /\ calls_made' = [calls_made EXCEPT ![t] = @ + 1]
    /\ pc' = [pc EXCEPT ![t] = "check"]
    /\ call' = [call EXCEPT ![t] =
                  [scanned |-> FALSE,
                   after_return |-> history # {},
                   expected |-> IF /\ \A u \in callers : pc[u] = "idle"
                                   /\ nam_vst3_path # NONE
                                THEN CachedResult(nam_vst3_path) ELSE AnyResult,
                   changes_at_start |-> env_changes]]
    /\ UNCHANGED <<nam_vst3_path, env_value, fs, callers, local, env_changes, history, first_result,
                   exceptDiscovery>>

\* line 79: the first read of the global
CheckCache(t) ==
    /\ pc[t] = "check"
    /\ pc' = [pc EXCEPT ![t] = IF CacheHit(nam_vst3_path) THEN "cached_test"
                                                          ELSE "read_env"]
    /\ UNCHANGED <<nam_vst3_path, env_value, fs, callers, local, call,
                   calls_made, env_changes, history, first_result,
                   exceptDiscovery>>

\* line 80, the condition of "x if x else None": the second read of the global
CachedTest(t) ==
    /\ pc[t] = "cached_test"
    /\ IF Truthy(nam_vst3_path)
       THEN /\ pc' = [pc EXCEPT ![t] = "cached_load"]
            /\ UNCHANGED <<local, call, history, first_result>>
       ELSE Return(t, NONE)
    /\ UNCHANGED <<nam_vst3_path, env_value, fs, callers, calls_made, env_changes,
                   exceptDiscovery>>

\* line 80, the value of "x if x else None": the third read of the global
CachedLoad(t) ==
    /\ pc[t] = "cached_load"
    /\ Return(t, nam_vst3_path)
    /\ UNCHANGED <<nam_vst3_path, env_value, fs, callers, calls_made, env_changes,
                   exceptDiscovery>>

\* line 83: os.environ.get(NAM_VST3_ENV_VAR), and the "env_path and" test of line 84
ReadEnv(t) ==
    /\ pc[t] = "read_env"
    /\ call' = [call EXCEPT ![t].scanned = TRUE]
    /\ IF Truthy(env_value)
       THEN /\ pc' = [pc EXCEPT ![t] = "env_exists"]
            /\ local' = [local EXCEPT ![t].env_path = env_value]
       ELSE /\ pc' = [pc EXCEPT ![t] = "search"]
            /\ local' = [local EXCEPT ![t].env_path = env_value, ![t].idx = 1]
    /\ UNCHANGED <<nam_vst3_path, env_value, fs, callers, calls_made,
                   env_changes, history, first_result,
                   exceptDiscovery>>

\* line 84: Path(env_path).exists()
EnvExists(t) ==
    /\ pc[t] = "env_exists"
    /\ IF local[t].env_path \in fs
       THEN /\ pc' = [pc EXCEPT ![t] = "store_env"]
            /\ UNCHANGED local
       ELSE /\ pc' = [pc EXCEPT ![t] = "search"]
            /\ local' = [local EXCEPT ![t].idx = 1]
    /\ UNCHANGED <<nam_vst3_path, env_value, fs, callers, call, calls_made,
                   env_changes, history, first_result,
                   exceptDiscovery>>

\* line 85: _nam_vst3_path = env_path
StoreEnv(t) ==
    /\ pc[t] = "store_env"
    /\ nam_vst3_path' = local[t].env_path
    /\ pc' = [pc EXCEPT ![t] = "return_global"]
    /\ UNCHANGED <<env_value, fs, callers, local, call, calls_made,
                   env_changes, history, first_result,
                   exceptDiscovery>>

\* lines 90-92: one iteration of the search loop, path.exists()
Search(t) ==
    /\ pc[t] = "search"
    /\ LET path == NAM_VST3_SEARCH_PATHS[local[t].idx]
       IN  IF path \in fs
           THEN /\ pc' = [pc EXCEPT ![t] = "store_path"]
                /\ local' = [local EXCEPT ![t].path = path]
           ELSE IF local[t].idx < Len(NAM_VST3_SEARCH_PATHS)
           THEN /\ local' = [local EXCEPT ![t].idx = @ + 1]
                /\ UNCHANGED pc
           ELSE /\ pc' = [pc EXCEPT ![t] = "store_empty"]
                /\ UNCHANGED local
    /\ UNCHANGED <<nam_vst3_path, env_value, fs, callers, call, calls_made,
                   env_changes, history, first_result,
                   exceptDiscovery>>

\* line 93: _nam_vst3_path = str(path)
StorePath(t) ==
    /\ pc[t] = "store_path"
    /\ nam_vst3_path' = local[t].path
    /\ pc' = [pc EXCEPT ![t] = "return_global"]
    /\ UNCHANGED <<env_value, fs, callers, local, call, calls_made,
                   env_changes, history, first_result,
                   exceptDiscovery>>

\* lines 87 and 95: "return _nam_vst3_path" reads the global again
ReturnGlobal(t) ==
    /\ pc[t] = "return_global"
    /\ Return(t, nam_vst3_path)
    /\ UNCHANGED <<nam_vst3_path, env_value, fs, callers, calls_made, env_changes,
                   exceptDiscovery>>

\* lines 98-100: _nam_vst3_path = "" and return None
StoreEmpty(t) ==
    /\ pc[t] = "store_empty"
    /\ nam_vst3_path' = ""
    /\ Return(t, NONE)
    /\ UNCHANGED <<env_value, fs, callers, calls_made, env_changes,
                   exceptDiscovery>>

\* The world outside the process: plugin files come and go, the override
\* variable is changed.
PluginAppears ==
    /\ env_changes < MaxEnvChanges
    /\ \E p \in AllPaths \ fs : fs' = fs \cup {p}
    /\ env_changes' = env_changes + 1
    /\ UNCHANGED <<nam_vst3_path, env_value, callers, pc, local, call,
                   calls_made, history, first_result,
                   exceptDiscovery>>

PluginDisappears ==
    /\ env_changes < MaxEnvChanges
    /\ \E p \in fs : fs' = fs \ {p}
    /\ env_changes' = env_changes + 1
    /\ UNCHANGED <<nam_vst3_path, env_value, callers, pc, local, call,
                   calls_made, history, first_result,
                   exceptDiscovery>>

SetEnv ==
    /\ env_changes < MaxEnvChanges
    /\ \E v \in EnvValues \ {env_value} : env_value' = v
    /\ env_changes' = env_changes + 1
    /\ UNCHANGED <<nam_vst3_path, fs, callers, pc, local, call,
                   calls_made, history, first_result,
                   exceptDiscovery>>

\* Module import: the cache is None (audio.py:58); the environment is arbitrary.
InitDiscoveryVars ==
    /\ nam_vst3_path = NONE
    /\ env_value \in EnvValues
    /\ pc = [t \in Threads |-> "idle"]
    /\ local = [t \in Threads |-> NoLocal]
    /\ call = [t \in Threads |-> NoCall]
    /\ calls_made = [t \in Threads |-> 0]
    /\ env_changes = 0
    /\ history = {}
    /\ first_result = Pending

\* The component at rest, for the specifications of the other components
IdleDiscovery ==
    /\ nam_vst3_path = NONE
    /\ env_value = NONE
    /\ fs = {}
    /\ callers = {}
    /\ pc = [t \in Threads |-> "idle"]
    /\ local = [t \in Threads |-> NoLocal]
    /\ call = [t \in Threads |-> NoCall]
    /\ calls_made = [t \in Threads |-> 0]
    /\ env_changes = 0
    /\ history = {}
    /\ first_result = Pending

NextDiscovery ==
    \/ \E t \in callers : BeginCall(t)
    \/ \E t \in callers : CheckCache(t)
    \/ \E t \in callers : CachedTest(t)
    \/ \E t \in callers : CachedLoad(t)
    \/ \E t \in callers : ReadEnv(t)
    \/ \E t \in callers : EnvExists(t)
    \/ \E t \in callers : StoreEnv(t)
    \/ \E t \in callers : Search(t)
    \/ \E t \in callers : StorePath(t)
    \/ \E t \in callers : ReturnGlobal(t)
    \/ \E t \in callers : StoreEmpty(t)
    \/ PluginAppears
    \/ PluginDisappears
    \/ SetEnv

-----------------------------------------------------------------------------
(* audio.py: chain processing *)

\* Bound of the chain model
MaxChainLen == 2

\* The effect types audio.py dispatches on (config.py:290); eq stands for the
\* built-in kinds eq, reverb, delay and gain, which share one branch.
ChainEffectTypes == {"nam", "ir", "eq", "vst"}

\* Where loading the plugin for one model can fail inside the try block of
\* load_nam_via_vst3 (audio.py:185-205)
PluginFaults == {"none", "load_plugin", "generate_preset_bytes", "preset_data"}

\* What the outside world does to one effect: whether the file or preset it
\* names exists, how the plugin behaves, whether the model file decodes.
Outcomes == [exists : BOOLEAN, plugin_fault : PluginFaults, decodable : BOOLEAN]

\* find_nam_vst3 run by one caller without interruption: the scan
Discover(env, fsys) ==
    IF Truthy(env) /\ env \in fsys THEN env
    ELSE IF \E i \in 1..Len(NAM_VST3_SEARCH_PATHS) : NAM_VST3_SEARCH_PATHS[i] \in fsys
    THEN LET first == CHOOSE i \in 1..Len(NAM_VST3_SEARCH_PATHS) :
                         /\ NAM_VST3_SEARCH_PATHS[i] \in fsys
                         /\ \A j \in 1..(i-1) : NAM_VST3_SEARCH_PATHS[j] \notin fsys
         IN  NAM_VST3_SEARCH_PATHS[first]
    ELSE ""

\* find_nam_vst3 run without interruption: the cache after the call
CacheAfterFind(cache, env, fsys) ==
    IF CacheHit(cache) THEN cache ELSE Discover(env, fsys)

\* load_nam_via_vst3(model_path, vst3_path): "None", "raise" or "plugin"
load_nam_via_vst3(vst3_path, o) ==
    IF ~Truthy(vst3_path) THEN "None"
    ELSE IF ~o.exists THEN "raise"
    ELSE IF o.plugin_fault # "none" THEN "None"
    ELSE "plugin"

\* load_nam_model(model_path): "raise" or "model"
load_nam_model(o) ==
    IF ~o.exists THEN "raise"
    ELSE IF ~o.decodable THEN "raise"
    ELSE "model"

\* One handled effect: its type, whether the plugin path was selected for it,
\* the plugin fault met, the path that processed it ("plugin", "local",
\* "ir", "builtin" or "none"), and whether the call raised on it.
Handled(type, selected, fault, path, raised) ==
    [effect_type |-> type, plugin_selected |-> selected, plugin_fault |-> fault,
     path_taken |-> path, raised |-> raised]

\* The local-inference branch of process_chain (audio.py:411-416, 419-424)
LocalInference(selected, fault, o) ==
    IF load_nam_model(o) = "raise"
    THEN Handled("nam", selected, fault, "local", TRUE)
    ELSE Handled("nam", selected, fault, "local", FALSE)

\* One iteration of process_chain's loop (audio.py:395-445)
process_chain_effect(type, vst3_path, o) ==
    IF type = "nam"
    THEN IF Truthy(vst3_path)
         THEN LET plugin == load_nam_via_vst3(vst3_path, o)
              IN  IF plugin = "raise"
                  THEN Handled("nam", TRUE, "none", "none", TRUE)
                  ELSE IF plugin = "plugin"
                  THEN Handled("nam", TRUE, "none", "plugin", FALSE)
                  ELSE LocalInference(TRUE, o.plugin_fault, o)
         ELSE LocalInference(FALSE, "none", o)
    ELSE IF type = "ir"
    THEN Handled("ir", FALSE, "none", IF o.exists THEN "ir" ELSE "none", ~o.exists)
    ELSE IF type = "vst"
    THEN Handled("vst", FALSE, "none", "none", FALSE)
    ELSE Handled(type, FALSE, "none", IF o.exists THEN "builtin" ELSE "none", FALSE)

\* One iteration of process_chain_unified's loop (audio.py:495-514); it is
\* reached only with a plugin path.
process_chain_unified_effect(type, vst3_path, o) ==
    IF type = "nam"
    THEN LET plugin == load_nam_via_vst3(vst3_path, o)
         IN  IF plugin = "raise"
             THEN Handled("nam", TRUE, "none", "none", TRUE)
             ELSE IF plugin = "plugin"
             THEN Handled("nam", TRUE, "none", "plugin", FALSE)
             ELSE Handled("nam", TRUE, o.plugin_fault, "none", FALSE)
    ELSE IF type = "ir"
    THEN Handled("ir", FALSE, "none", IF o.exists THEN "ir" ELSE "none", ~o.exists)
    ELSE IF type = "vst"
    THEN Handled("vst", FALSE, "none", "none", FALSE)
    ELSE Handled(type, FALSE, "none", IF o.exists THEN "builtin" ELSE "none", FALSE)

\* The loop over chain_effects: the effects handled up to the first raise.
RECURSIVE RunChain(_, _, _, _, _)
RunChain(unified, effects, outcomes, vst3_path, i) ==
    IF i > Len(effects) THEN <<>>
    ELSE LET h == IF unified
                  THEN process_chain_unified_effect(effects[i], vst3_path, outcomes[i])
                  ELSE process_chain_effect(effects[i], vst3_path, outcomes[i])
         IN  IF h.raised THEN <<h>>
             ELSE <<h>> \o RunChain(unified, effects, outcomes, vst3_path, i + 1)

ChainRaised(log) == \E i \in 1..Len(log) : log[i].raised

ChainInputs == UNION {[1..n -> ChainEffectTypes] : n \in 0..MaxChainLen}

\* process_chain(audio, sample_rate, chain_effects): find_nam_vst3 fills the
\* cache, then the loop runs.  (Input and output normalization are off by
\* default and touch no state read here.)
process_chain(effects, outcomes) ==
    LET cache == CacheAfterFind(nam_vst3_path, env_value, fs)
        log == RunChain(FALSE, effects, outcomes, CachedResult(cache), 1)
    IN  /\ nam_vst3_path' = cache
        /\ chain_effects' = effects
        /\ chain_log' = log
        /\ chain_result' = IF ChainRaised(log) THEN "raised" ELSE "returned"

\* process_chain_unified(audio, sample_rate, chain_effects): without a plugin
\* it hands over to process_chain (audio.py:480-482).
process_chain_unified(effects, outcomes) ==
    LET cache == CacheAfterFind(nam_vst3_path, env_value, fs)
    IN  IF ~Truthy(CachedResult(cache))
        THEN process_chain(effects, outcomes)
        ELSE LET log == RunChain(TRUE, effects, outcomes, CachedResult(cache), 1)
             IN  /\ nam_vst3_path' = cache
                 /\ chain_effects' = effects
                 /\ chain_log' = log
                 /\ chain_result' = IF ChainRaised(log) THEN "raised" ELSE "returned"

ProcessChain ==
    /\ chain_result = "idle"
    /\ \E effects \in ChainInputs :
         \E outcomes \in [1..Len(effects) -> Outcomes] :
            process_chain(effects, outcomes)
    /\ chain_entry' = "process_chain"
    /\ UNCHANGED <<env_value, fs, exceptChain>>

ProcessChainUnified ==
    /\ chain_result = "idle"
    /\ \E effects \in ChainInputs :
         \E outcomes \in [1..Len(effects) -> Outcomes] :
            process_chain_unified(effects, outcomes)
    /\ chain_entry' = "process_chain_unified"
    /\ UNCHANGED <<env_value, fs, exceptChain>>

IdleChain ==
    /\ chain_entry = "none"
    /\ chain_effects = <<>>
    /\ chain_log = <<>>
    /\ chain_result = "idle"

NextChain ==
    \/ ProcessChain
    \/ ProcessChainUnified

-----------------------------------------------------------------------------
(* config.py: chain parsing.  Text is a sequence of one-character strings. *)

\* Bounds of the parsing model
MaxTokens == 3
MaxChains == 2

\* str.split(sep): the parts between the separators, at least one part
RECURSIVE Split(_, _)
Split(s, sep) ==
    IF \A i \in 1..Len(s) : s[i] # sep THEN <<s>>
    ELSE LET k == CHOOSE i \in 1..Len(s) :
                     s[i] = sep /\ \A j \in 1..(i-1) : s[j] # sep
         IN  <<SubSeq(s, 1, k - 1)>> \o Split(SubSeq(s, k + 1, Len(s)), sep)

\* str.rsplit(sep, 1): the text before the last separator and the text
\* after it
SplitLast(s, sep) ==
    LET k == CHOOSE i \in 1..Len(s) :
                 s[i] = sep /\ \A j \in (i+1)..Len(s) : s[j] # sep
    IN  <<SubSeq(s, 1, k - 1), SubSeq(s, k + 1, Len(s))>>

\* str.split(sep, 1) on a text that holds sep: the text before the first
\* separator and the text after it
SplitFirst(s, sep) ==
    LET k == CHOOSE i \in 1..Len(s) : s[i] = sep /\ \A j \in 1..(i-1) : s[j] # sep
    IN  <<SubSeq(s, 1, k - 1), SubSeq(s, k + 1, Len(s))>>

IsSpace(c) == c \in {" ", "\t"}

\* str.strip()
RECURSIVE Strip(_)
Strip(s) ==
    IF s = <<>> THEN s
    ELSE IF IsSpace(s[1]) THEN Strip(Tail(s))
    ELSE IF IsSpace(s[Len(s)]) THEN Strip(SubSeq(s, 1, Len(s) - 1))
    ELSE s

\* str.lower(), on the letters the model's texts use
LowerChar(c) ==
    CASE c = "I" -> "i"
      [] c = "R" -> "r"
      [] c = "E" -> "e"
      [] c = "Q" -> "q"
      [] c = "X" -> "x"
      [] OTHER -> c

Lower(s) == [i \in 1..Len(s) |-> LowerChar(s[i])]

\* valid_types (config.py:290)
valid_types ==
    { <<"n","a","m">>, <<"i","r">>, <<"e","q">>,
      <<"r","e","v","e","r","b">>, <<"d","e","l","a","y">>,
      <<"g","a","i","n">>, <<"v","s","t">> }

ParseOk(effects) == [ok |-> TRUE, effects |-> effects]
FormatError(part) ==
    [ok |-> FALSE, error |-> "ValueError", message |-> "Invalid chain effect format",
     token |-> part]
TypeError(effect_type) ==
    [ok |-> FALSE, error |-> "ValueError", message |-> "Unknown effect type",
     token |-> effect_type, valid |-> valid_types]

\* The loop of _parse_chain over the parts, with a malformed or unknown part
\* skipped instead of raising
RECURSIVE parse_parts_lenient(_, _)
parse_parts_lenient(parts, effects) ==
    IF parts = <<>> THEN ParseOk(effects)
    ELSE LET part == Strip(Head(parts))
         IN  IF part = <<>> THEN parse_parts_lenient(Tail(parts), effects)
             ELSE IF \A i \in 1..Len(part) : part[i] # ":"
             THEN parse_parts_lenient(Tail(parts), effects)
             ELSE LET pair == SplitFirst(part, ":")
                      effect_type == Lower(Strip(pair[1]))
                      value == Strip(pair[2])
                  IN  IF effect_type \notin valid_types
                      THEN parse_parts_lenient(Tail(parts), effects)
                      ELSE parse_parts_lenient(Tail(parts),
                              Append(effects, [effect_type |-> effect_type,
                                               value |-> value]))

\* The loop of _parse_chain over the parts (config.py:277-294)
RECURSIVE parse_parts(_, _)
parse_parts(parts, effects) ==
    IF parts = <<>> THEN ParseOk(effects)
    ELSE LET part == Strip(Head(parts))
         IN  IF part = <<>> THEN parse_parts(Tail(parts), effects)
             ELSE IF \A i \in 1..Len(part) : part[i] # ":"
             THEN FormatError(part)
             ELSE LET pair == SplitFirst(part, ":")
                      effect_type == Lower(Strip(pair[1]))
                      value == Strip(pair[2])
                  IN  IF effect_type \notin valid_types
                      THEN TypeError(effect_type)
                      ELSE parse_parts(Tail(parts),
                              Append(effects, [effect_type |-> effect_type,
                                               value |-> value]))

\* _parse_chain(chain_str)
parse_chain(text) == parse_parts(Split(text, ","), <<>>)

\* One [signal_chains] entry N: its fields "name" and "chain", each present
\* (Some) or absent (None).  The entries come sorted by N.
RECURSIVE load_entries(_, _)
load_entries(entries, signal_chains) ==
    IF entries = <<>> THEN [ok |-> TRUE, signal_chains |-> signal_chains]
    ELSE LET data == Head(entries)
         IN  IF data.name = None
             THEN [ok |-> FALSE, error |-> "ValueError",
                   message |-> "missing required 'name' field"]
             ELSE IF data.chain = None
             THEN [ok |-> FALSE, error |-> "ValueError",
                   message |-> "missing required 'chain' field"]
             ELSE LET chain_effects_ == parse_chain(data.chain[1])
                  IN  IF ~chain_effects_.ok THEN chain_effects_
                      ELSE load_entries(Tail(entries),
                              Append(signal_chains,
                                     [name |-> data.name[1],
                                      description |-> "",
                                      chain |-> chain_effects_.effects]))

\* _load_signal_chains(section)
load_signal_chains(entries) == load_entries(entries, <<>>)

\* The raw tokens the model writes between commas
RawTokens ==
    { <<"i","r",":","x">>,
      <<" ","I","R"," ",":"," ","x"," ">>,
      <<"e","q",":">>,
      <<"i","r",":","x",":","y">>,
      <<"x">>,
      <<"x",":","i","r">>,
      <<":","x">>,
      <<>>,
      <<" ">> }

RECURSIVE Join(_)
Join(tokens) ==
    IF tokens = <<>> THEN <<>>
    ELSE IF Len(tokens) = 1 THEN tokens[1]
    ELSE tokens[1] \o <<",">> \o Join(Tail(tokens))

ChainTexts ==
    {Join(ts) : ts \in UNION {[1..n -> RawTokens] : n \in 0..MaxTokens}}

\* The chain texts the model writes into a [signal_chains] section
SectionChainTexts ==
    { <<>>, <<" ">>, <<",">>, <<"i","r",":","x">>,
      <<"i","r",":","x",",","e","q",":">>, <<"x">> }

SectionEntries ==
    {[name |-> Some("chain"), chain |-> Some(t)] : t \in SectionChainTexts}
    \cup {[name |-> None, chain |-> Some(<<"i","r",":","x">>)],
          [name |-> Some("chain"), chain |-> None]}

Sections == UNION {[1..n -> SectionEntries] : n \in 0..MaxChains}

NotCalled == [ok |-> FALSE, error |-> "not called"]

ParseChain ==
    /\ parse_result = NotCalled
    /\ load_result = NotCalled
    /\ \E text \in ChainTexts :
          /\ chain_str' = text
          /\ parse_result' = parse_chain(text)
    /\ UNCHANGED <<section, load_result, exceptParse>>

LoadSignalChains ==
    /\ parse_result = NotCalled
    /\ load_result = NotCalled
    /\ \E entries \in Sections :
          /\ section' = entries
          /\ load_result' = load_signal_chains(entries)
    /\ UNCHANGED <<chain_str, parse_result, exceptParse>>

IdleParse ==
    /\ chain_str = <<>>
    /\ parse_result = NotCalled
    /\ section = <<>>
    /\ load_result = NotCalled

NextParse ==
    \/ ParseChain
    \/ LoadSignalChains

-----------------------------------------------------------------------------
(* normalize.py: level measurement.  A sample is an integer number of       *)
(* amplitude steps; a level in dB is kept as the exact quantity under the   *)
(* logarithm.                                                                *)

\* Bound of the level model
MaxSamples == 3

SampleValues == {-2, -1, 0, 1, 2}
Buffers == UNION {[1..n -> SampleValues] : n \in 0..MaxSamples}

Abs(x) == IF x < 0 THEN -x ELSE x

RECURSIVE SumSquares(_)
SumSquares(audio) ==
    IF audio = <<>> THEN 0
    ELSE Head(audio) * Head(audio) + SumSquares(Tail(audio))

RECURSIVE MaxAbs(_)
MaxAbs(audio) ==
    IF Len(audio) = 1 THEN Abs(audio[1])
    ELSE LET m == MaxAbs(Tail(audio))
         IN  IF Abs(audio[1]) > m THEN Abs(audio[1]) ELSE m

\* Results: a float that is -inf, nan, or the level of a ratio num/den
Returned(kind, num, den) ==
    [outcome |-> "return", error |-> "none", kind |-> kind, num |-> num, den |-> den]
Raised(error) ==
    [outcome |-> "raise", error |-> error, kind |-> "none", num |-> 0, den |-> 0]

\* rms_db written like peak_db: -inf for a zero RMS
rms_db_neg_inf(audio) ==
    IF audio = <<>> THEN Returned("nan", 0, 0)
    ELSE IF SumSquares(audio) = 0 THEN Returned("-inf", 0, 0)
    ELSE Returned("20*log10(sqrt(num/den))", SumSquares(audio), Len(audio))

\* rms_db(audio): rms = sqrt(mean(audio**2)); raise if rms == 0.  The mean
\* of no samples is nan, which is not 0.
rms_db(audio) ==
    IF audio = <<>> THEN Returned("nan", 0, 0)
    ELSE IF SumSquares(audio) = 0 THEN Raised("NormalizationError")
    ELSE Returned("20*log10(sqrt(num/den))", SumSquares(audio), Len(audio))

\* rms_linear(audio)
rms_linear(audio) ==
    IF audio = <<>> THEN Returned("nan", 0, 0)
    ELSE Returned("sqrt(num/den)", SumSquares(audio), Len(audio))

\* peak_db(audio): np.max of no samples raises ValueError
peak_db(audio) ==
    IF audio = <<>> THEN Raised("ValueError")
    ELSE IF MaxAbs(audio) = 0 THEN Returned("-inf", 0, 0)
    ELSE Returned("20*log10(num/den)", MaxAbs(audio), 1)

NoLevel == Raised("not called")

CallRmsDb ==
    /\ level_fn = "none"
    /\ \E audio \in Buffers :
          /\ level_buffer' = audio
          /\ level_result' = rms_db(audio)
    /\ level_fn' = "rms_db"
    /\ UNCHANGED exceptLevel

CallRmsLinear ==
    /\ level_fn = "none"
    /\ \E audio \in Buffers :
          /\ level_buffer' = audio
          /\ level_result' = rms_linear(audio)
    /\ level_fn' = "rms_linear"
    /\ UNCHANGED exceptLevel

CallPeakDb ==
    /\ level_fn = "none"
    /\ \E audio \in Buffers :
          /\ level_buffer' = audio
          /\ level_result' = peak_db(audio)
    /\ level_fn' = "peak_db"
    /\ UNCHANGED exceptLevel

IdleLevel ==
    /\ level_fn = "none"
    /\ level_buffer = <<>>
    /\ level_result = NoLevel

NextLevel ==
    \/ CallRmsDb
    \/ CallRmsLinear
    \/ CallPeakDb

-----------------------------------------------------------------------------
(* preset.py: VST3 preset encoding.  A str is a sequence of code points, a  *)
(* bytes object a sequence of integers 0..255, and a float parameter is a   *)
(* number of tenths.                                                        *)

\* Bound of the preset model: the length of the path and version strings
MaxStrLen == 2

\* "/", "a", and one code point of each longer UTF-8 width
CodePoints == {47, 97, 233, 8364, 128512}
Strings == UNION {[1..n -> CodePoints] : n \in 0..MaxStrLen}

\* struct.pack("<I", n) and struct.pack("<Q", n): width bytes, lowest first
RECURSIVE pack_le(_, _)
pack_le(n, width) ==
    IF width = 0 THEN <<>>
    ELSE <<n % 256>> \o pack_le(n \div 256, width - 1)

\* struct.pack("<d", float(param)) for the parameter values in use
pack_double(tenths) ==
    CASE tenths = 0 -> <<0, 0, 0, 0, 0, 0, 0, 0>>
      [] tenths = 2 -> <<154, 153, 153, 153, 153, 153, 201, 63>>
      [] tenths = 5 -> <<0, 0, 0, 0, 0, 0, 224, 63>>
      [] tenths = 6 -> <<51, 51, 51, 51, 51, 51, 227, 63>>
      [] tenths = 10 -> <<0, 0, 0, 0, 0, 0, 240, 63>>

\* One code point in UTF-8
utf8_char(cp) ==
    IF cp < 128 THEN <<cp>>
    ELSE IF cp < 2048 THEN <<192 + (cp \div 64), 128 + (cp % 64)>>
    ELSE IF cp < 65536
    THEN <<224 + (cp \div 4096), 128 + ((cp \div 64) % 64), 128 + (cp % 64)>>
    ELSE <<240 + (cp \div 262144), 128 + ((cp \div 4096) % 64),
           128 + ((cp \div 64) % 64), 128 + (cp % 64)>>

\* s.encode("utf-8")
RECURSIVE encode_utf8(_)
encode_utf8(s) ==
    IF s = <<>> THEN <<>> ELSE utf8_char(Head(s)) \o encode_utf8(Tail(s))

\* Whether s.encode("ascii") succeeds
IsAscii(s) == \A i \in 1..Len(s) : s[i] < 128

NAM_CLASS_ID ==
    <<70, 50, 65, 69, 69, 55, 48, 68, 48, 48, 68, 69, 52, 70, 52, 69,
      53, 51, 52, 52, 52, 49, 54, 49, 51, 49, 53, 57, 52, 53, 54, 70>>

DEFAULT_NAM_VERSION == <<48, 46, 55, 46, 49, 51>>

\* "###NeuralAmpModeler###"
NAM_MARKER ==
    <<35, 35, 35, 78, 101, 117, 114, 97, 108, 65, 109, 112, 77, 111, 100,
      101, 108, 101, 114, 35, 35, 35>>

\* The default parameter vector of create_nam_state (preset.py:107-120)
DefaultParameters == <<5, 2, 5, 5, 5, 5, 10, 10, 0, 0, 6, 5>>

PresetOk(data) == [ok |-> TRUE, data |-> data, error |-> "none"]
PresetRaise(error) == [ok |-> FALSE, data |-> <<>>, error |-> error]

\* _put_string(s):
\*   encoded = s.encode("utf-8") + b"\x00" if s else b""
\*   return struct.pack("<I", len(encoded)) + encoded
put_string(s) ==
    LET encoded == IF s # <<>> THEN encode_utf8(s) \o <<0>> ELSE <<>>
    IN  pack_le(Len(encoded), 4) \o encoded

RECURSIVE pack_parameters(_)
pack_parameters(parameters) ==
    IF parameters = <<>> THEN <<>>
    ELSE pack_double(Head(parameters)) \o pack_parameters(Tail(parameters))

\* create_nam_state(nam_path, ir_path, version, parameters)
create_nam_state(nam_path, ir_path, version, parameters) ==
    LET state == put_string(NAM_MARKER) \o put_string(version)
                 \o put_string(nam_path) \o put_string(ir_path)
        params == IF parameters = None THEN DefaultParameters ELSE parameters[1]
    IN  IF Len(params) # 12 THEN PresetRaise("PresetGenerationError")
        ELSE PresetOk(state \o pack_parameters(params))

header_size == 48

\* chunk_list_offset without the length of the component state
chunk_list_offset_of_header(component_state) == header_size

\* chunk_list_offset = data_start + len(component_state)
chunk_list_offset(component_state) == header_size + Len(component_state)

\* b"VST3", b"List", b"Comp"
VST3_MAGIC == <<86, 83, 84, 51>>
LIST_ID == <<76, 105, 115, 116>>
COMP_ID == <<67, 111, 109, 112>>

\* create_vst3_preset(class_id, component_state)
create_vst3_preset(class_id, component_state) ==
    IF Len(class_id) # 32 THEN PresetRaise("PresetGenerationError")
    ELSE IF ~IsAscii(class_id) THEN PresetRaise("UnicodeEncodeError")
    ELSE LET class_id_bytes == class_id
             comp_offset == header_size
             chunk_list == LIST_ID \o pack_le(1, 4) \o COMP_ID
                           \o pack_le(comp_offset, 8)
                           \o pack_le(Len(component_state), 8)
             header == VST3_MAGIC \o pack_le(1, 4) \o class_id_bytes
                       \o pack_le(chunk_list_offset(component_state), 8)
         IN  PresetOk(header \o component_state \o chunk_list)

\* generate_preset_bytes(nam_model_path, ir_path, parameters); model_path is
\* the resolved path and exists says whether that file is there
generate_preset_bytes(model_path, exists, ir_path, parameters) ==
    IF ~exists THEN PresetRaise("PresetGenerationError")
    ELSE LET component_state ==
                 create_nam_state(model_path, ir_path, DEFAULT_NAM_VERSION, parameters)
         IN  IF ~component_state.ok THEN component_state
             ELSE create_vst3_preset(NAM_CLASS_ID, component_state.data)

\* Arguments tried
ParameterCounts == {0, 10, 12, 13}
ParameterVectors ==
    {None} \cup {Some([i \in 1..n |-> 5]) : n \in ParameterCounts}
    \cup {Some(DefaultParameters)}
\* Resolved model paths: absolute, so never empty
ModelPaths == {s \in Strings : s # <<>> /\ s[1] = 47}
Versions == {DEFAULT_NAM_VERSION, <<>>, <<233>>}
ClassIds ==
    { NAM_CLASS_ID,
      <<115, 104, 111, 114, 116>>,
      <<>>,
      NAM_CLASS_ID \o <<70>>,
      [i \in 1..32 |-> IF i = 32 THEN 233 ELSE NAM_CLASS_ID[i]],
      [i \in 1..32 |-> 97] }
ComponentStates ==
    { <<>>, <<0>>, <<255, 0, 7>> }
    \cup {create_nam_state(p, <<>>, DEFAULT_NAM_VERSION, None).data : p \in ModelPaths}

NoPreset == PresetRaise("not called")

PutString ==
    /\ preset_fn = "none"
    /\ \E s \in Strings \cup {NAM_MARKER, DEFAULT_NAM_VERSION} :
          /\ preset_args' = [s |-> s]
          /\ preset_result' = PresetOk(put_string(s))
    /\ preset_fn' = "_put_string"
    /\ UNCHANGED exceptPreset

CreateNamState ==
    /\ preset_fn = "none"
    /\ \E nam_path \in Strings, ir_path \in Strings, version \in Versions,
          parameters \in ParameterVectors :
          /\ preset_args' = [nam_path |-> nam_path, ir_path |-> ir_path,
                             version |-> version, parameters |-> parameters]
          /\ preset_result' = create_nam_state(nam_path, ir_path, version, parameters)
    /\ preset_fn' = "create_nam_state"
    /\ UNCHANGED exceptPreset

CreateVst3Preset ==
    /\ preset_fn = "none"
    /\ \E class_id \in ClassIds, component_state \in ComponentStates :
          /\ preset_args' = [class_id |-> class_id,
                             component_state |-> component_state]
          /\ preset_result' = create_vst3_preset(class_id, component_state)
    /\ preset_fn' = "create_vst3_preset"
    /\ UNCHANGED exceptPreset

GeneratePresetBytes ==
    /\ preset_fn = "none"
    /\ \E model_path \in ModelPaths, exists \in BOOLEAN, ir_path \in Strings,
          parameters \in ParameterVectors :
          /\ preset_args' = [model_path |-> model_path, exists |-> exists,
                             ir_path |-> ir_path, parameters |-> parameters]
          /\ preset_result' = generate_preset_bytes(model_path, exists, ir_path, parameters)
    /\ preset_fn' = "generate_preset_bytes"
    /\ UNCHANGED exceptPreset

IdlePreset ==
    /\ preset_fn = "none"
    /\ preset_args = <<>>
    /\ preset_result = NoPreset

NextPreset ==
    \/ PutString
    \/ CreateNamState
    \/ CreateVst3Preset
    \/ GeneratePresetBytes

-----------------------------------------------------------------------------
(* normalize.py: normalize_rms.  Samples are integer amplitude steps with   *)
(* FullScale steps = 1.0; levels are powers (squared amplitudes) kept as    *)
(* exact fractions <<numerator, denominator>>; a level in dB enters through *)
(* the table db_to_power.                                                   *)

\* Bound of the normalization model: the longest enumerated buffer
MaxNormSamples == 3

\* The sample value 1.0, in amplitude steps
FullScale == 2

\* The denominator of the powers in db_to_power
PowerScale == 1000

DEFAULT_OUTPUT_RMS_DB == -140
DEFAULT_PEAK_LIMIT_DB == -1

\* db_to_linear(db) ** 2 = 10 ** (db / 10), in units of 1/PowerScale, for the
\* levels in use (db in tenths of a dB)
db_to_power(db) ==
    CASE db = -200 -> 10
      [] db = -140 -> 40
      [] db = -60 -> 251
      [] db = -1 -> 977
      [] db = 0 -> 1000
      [] db = 5 -> 1122

RECURSIVE Gcd(_, _)
Gcd(a, b) == IF b = 0 THEN a ELSE Gcd(b, a % b)

\* The fraction n/d in lowest terms (n >= 0, d > 0)
Rat(n, d) == LET g == Gcd(n, d) IN <<n \div g, d \div g>>

RatMul(x, y) ==
    LET a == Rat(x[1], y[2])
        b == Rat(y[1], x[2])
    IN  Rat(a[1] * b[1], a[2] * b[2])

RatDiv(x, y) == RatMul(x, <<y[2], y[1]>>)

RatLess(x, y) == x[1] * y[2] < y[1] * x[2]

\* An impulse: one full-scale sample followed by n - 1 zeros
Impulse(n) == [i \in 1..n |-> IF i = 1 THEN FullScale ELSE 0]
ImpulseLengths == {25, 40}

NormBuffers ==
    UNION {[1..n -> SampleValues] : n \in 0..MaxNormSamples}
    \cup {Impulse(n) : n \in ImpulseLengths}

\* target_db arguments tried, in tenths of a dB
TargetsDb == {-200, -140, -60, 0}

\* np.max(np.abs(audio)) ** 2 as a power
peak_square(audio) == Rat(MaxAbs(audio) * MaxAbs(audio), FullScale * FullScale)

\* The level taken from the largest sample instead of the mean
mean_square_of_peak(audio) ==
    Rat(MaxAbs(audio) * MaxAbs(audio), FullScale * FullScale)

\* rms_linear(audio) ** 2 = np.mean(audio ** 2) as a power
mean_square(audio) == Rat(SumSquares(audio), Len(audio) * FullScale * FullScale)

NormReturned(gain_power, limited, unchanged) ==
    [outcome |-> "return", error |-> "none", gain_power |-> gain_power,
     limited |-> limited, unchanged |-> unchanged]
NormRaised(error) ==
    [outcome |-> "raise", error |-> error, gain_power |-> <<0, 1>>,
     limited |-> FALSE, unchanged |-> FALSE]

\* normalize_rms(audio, target_db, peak_limit_db).  The returned buffer is
\* audio * sqrt(gain_power).  For no samples np.mean gives nan, which is not
\* 0, and np.max raises ValueError.
normalize_rms(audio, target_db, peak_limit_db) ==
    IF audio = <<>> THEN NormRaised("ValueError")
    ELSE IF SumSquares(audio) = 0 THEN NormReturned(<<1, 1>>, FALSE, TRUE)
    ELSE LET current_power == mean_square(audio)
             gain_power == RatDiv(Rat(db_to_power(target_db), PowerScale),
                                  current_power)
             peak_power == RatMul(peak_square(audio), gain_power)
             peak_limit == Rat(db_to_power(peak_limit_db), PowerScale)
         IN  IF RatLess(peak_limit, peak_power)
             THEN NormReturned(RatMul(gain_power, RatDiv(peak_limit, peak_power)),
                               TRUE, FALSE)
             ELSE NormReturned(gain_power, FALSE, FALSE)

NoNormalize == NormRaised("not called")

NormalizeRms ==
    /\ norm_result = NoNormalize
    /\ \E audio \in NormBuffers, target_db \in TargetsDb :
          /\ norm_audio' = audio
          /\ norm_target_db' = target_db
          /\ norm_result' = normalize_rms(audio, target_db, DEFAULT_PEAK_LIMIT_DB)
    /\ UNCHANGED exceptNormalize

IdleNormalize ==
    /\ norm_audio = <<>>
    /\ norm_target_db = DEFAULT_OUTPUT_RMS_DB
    /\ norm_result = NoNormalize

NextNormalize ==
    \/ NormalizeRms

-----------------------------------------------------------------------------
(* metrics.py: extract_metrics.  An ndarray is its ndim and its data: the   *)
(* samples of a 1-D array, the rows of a 2-D array.  A metric is kept as    *)
(* the exact quantities it is the logarithm or quotient of.                 *)

\* Bounds of the metrics model: the shape of the largest array
MaxRows == 2
MaxColumns == 2

MetricSampleValues == {-1, 0, 2}
MetricSampleRates == {44100, 48000}

Arrays1D ==
    {[ndim |-> 1, data |-> d] :
        d \in UNION {[1..n -> MetricSampleValues] : n \in 1..MaxColumns}}
Arrays2D ==
    {[ndim |-> 2, data |-> d] :
        d \in UNION {[1..r -> [1..c -> MetricSampleValues]] :
                        r \in 1..MaxRows, c \in 1..MaxColumns}}

\* Only the first row of a 2-D array
flatten_first_row(rows) == rows[1]

\* ndarray.flatten() of a 2-D array: the rows one after the other
RECURSIVE flatten(_)
flatten(rows) ==
    IF Len(rows) = 0 THEN <<>> ELSE Head(rows) \o flatten(Tail(rows))

\* calculate_rms_dbfs(audio)
calculate_rms_dbfs(audio) ==
    IF SumSquares(audio) = 0 THEN Returned("-inf", 0, 0)
    ELSE Returned("20*log10(sqrt(num/den))", SumSquares(audio), Len(audio))

\* calculate_peak_dbfs(audio)
calculate_peak_dbfs(audio) ==
    IF MaxAbs(audio) = 0 THEN Returned("-inf", 0, 0)
    ELSE Returned("20*log10(num/den)", MaxAbs(audio), 1)

\* extract_metrics(audio, sample_rate).  The spectral, advanced and windowed
\* metrics are functions of the analysed samples and the sample rate; they
\* are kept as those samples.
extract_metrics(audio, rate) ==
    LET audio_1d == IF audio.ndim > 1 THEN flatten(audio.data) ELSE audio.data
    IN  [duration_seconds |-> <<Len(audio_1d), rate>>,
         sample_rate |-> rate,
         rms_dbfs |-> calculate_rms_dbfs(audio_1d),
         peak_dbfs |-> calculate_peak_dbfs(audio_1d),
         analysed |-> audio_1d]

NoMetrics ==
    [duration_seconds |-> <<0, 1>>, sample_rate |-> 0,
     rms_dbfs |-> NoLevel, peak_dbfs |-> NoLevel, analysed |-> <<>>]

ExtractMetrics1D ==
    /\ metrics_result = NoMetrics
    /\ \E audio \in Arrays1D, rate \in MetricSampleRates :
          /\ metrics_audio' = audio
          /\ metrics_result' = extract_metrics(audio, rate)
    /\ UNCHANGED exceptMetrics

ExtractMetrics2D ==
    /\ metrics_result = NoMetrics
    /\ \E audio \in Arrays2D, rate \in MetricSampleRates :
          /\ metrics_audio' = audio
          /\ metrics_result' = extract_metrics(audio, rate)
    /\ UNCHANGED exceptMetrics

IdleMetrics ==
    /\ metrics_audio = [ndim |-> 1, data |-> <<>>]
    /\ metrics_result = NoMetrics

NextMetrics ==
    \/ ExtractMetrics1D
    \/ ExtractMetrics2D

-----------------------------------------------------------------------------
(* backend api/v1/ws.py: the job-progress WebSocket, one connection.         *)

\* Bound of the WebSocket model: progress messages published while it runs
MaxPublished == 2

\* The users table and the jobs table (job id -> owner)
WsUsers == {"u1", "u2"}
WsJobOwner == [j \in {"j1", "j2"} |-> IF j = "j1" THEN "u1" ELSE "u2"]

\* Token query parameters: absent, empty, or a JWT that is genuine (signed
\* and unexpired) or not, with its "sub" claim (NONE: no such claim)
MissingToken == [text |-> "missing", genuine |-> FALSE, sub |-> NONE]
EmptyToken == [text |-> "empty", genuine |-> FALSE, sub |-> NONE]
WsTokens ==
    {MissingToken, EmptyToken}
    \cup {[text |-> "jwt", genuine |-> g, sub |-> s] :
             g \in BOOLEAN, s \in {"u1", "u2", "deleted-user", NONE}}

\* job_id path parameters: two jobs, a UUID of no job, and text that is no UUID
WsJobIds == {"j1", "j2", "j9", "not-a-uuid"}

PublishedStatuses == {"running", "completed", "failed", "cancelled"}

\* decode_access_token(token): the user id, or None for TokenError
decode_access_token(token) ==
    IF token.genuine /\ token.sub # NONE THEN Some(token.sub) ELSE None

\* verify_ws_token(token): the User row, or None
verify_ws_token(token) ==
    LET user_id == decode_access_token(token)
    IN  IF user_id = None THEN None
        ELSE IF user_id[1] \in WsUsers THEN user_id ELSE None

\* get_job_for_user without the owner in the query
get_job_for_any_user(user_id, job_id) ==
    IF job_id = "not-a-uuid" THEN None
    ELSE IF job_id \in DOMAIN WsJobOwner THEN Some(job_id)
    ELSE None

\* get_job_for_user(user_id, job_id): the Job row, or None
get_job_for_user(user_id, job_id) ==
    IF job_id = "not-a-uuid" THEN None
    ELSE IF job_id \in DOMAIN WsJobOwner /\ WsJobOwner[job_id] = user_id
    THEN Some(job_id)
    ELSE None

NoClose == 0

\* job_progress_ws is called for a new connection
WsConnect ==
    /\ ws_pc = "idle"
    /\ \E token \in WsTokens, job_id \in WsJobIds :
          /\ ws_token' = token
          /\ ws_job_id' = job_id
    /\ ws_pc' = "check_token"
    /\ UNCHANGED <<ws_user, ws_job, ws_conn, ws_close_code, ws_subscribed,
                   ws_ever_subscribed, ws_sent, ws_channel, ws_published,
                   exceptWs>>

\* if not token: close(4001, "Missing token")
WsCheckToken ==
    /\ ws_pc = "check_token"
    /\ IF ws_token.text \in {"missing", "empty"}
       THEN /\ ws_conn' = "closed"
            /\ ws_close_code' = 4001
            /\ ws_pc' = "done"
       ELSE /\ ws_pc' = "verify"
            /\ UNCHANGED <<ws_conn, ws_close_code>>
    /\ UNCHANGED <<ws_token, ws_job_id, ws_user, ws_job, ws_subscribed,
                   ws_ever_subscribed, ws_sent, ws_channel, ws_published,
                   exceptWs>>

\* user = await verify_ws_token(token); if not user: close(4001)
WsVerifyToken ==
    /\ ws_pc = "verify"
    /\ ws_user' = verify_ws_token(ws_token)
    /\ IF ws_user' = None
       THEN /\ ws_conn' = "closed"
            /\ ws_close_code' = 4001
            /\ ws_pc' = "done"
       ELSE /\ ws_pc' = "get_job"
            /\ UNCHANGED <<ws_conn, ws_close_code>>
    /\ UNCHANGED <<ws_token, ws_job_id, ws_job, ws_subscribed,
                   ws_ever_subscribed, ws_sent, ws_channel, ws_published,
                   exceptWs>>

\* job = await get_job_for_user(user.id, job_id); if not job: close(4004)
WsGetJob ==
    /\ ws_pc = "get_job"
    /\ ws_job' = get_job_for_user(ws_user[1], ws_job_id)
    /\ IF ws_job' = None
       THEN /\ ws_conn' = "closed"
            /\ ws_close_code' = 4004
            /\ ws_pc' = "done"
       ELSE /\ ws_pc' = "accept"
            /\ UNCHANGED <<ws_conn, ws_close_code>>
    /\ UNCHANGED <<ws_token, ws_job_id, ws_user, ws_subscribed,
                   ws_ever_subscribed, ws_sent, ws_channel, ws_published,
                   exceptWs>>

\* await websocket.accept()
WsAccept ==
    /\ ws_pc = "accept"
    /\ ws_conn' = "accepted"
    /\ ws_pc' = "subscribe"
    /\ UNCHANGED <<ws_token, ws_job_id, ws_user, ws_job, ws_close_code,
                   ws_subscribed, ws_ever_subscribed, ws_sent, ws_channel,
                   ws_published, exceptWs>>

\* pubsub = await subscribe_job_progress(job_id)
WsSubscribe ==
    /\ ws_pc = "subscribe"
    /\ ws_subscribed' = TRUE
    /\ ws_ever_subscribed' = TRUE
    /\ ws_pc' = "send_initial"
    /\ UNCHANGED <<ws_token, ws_job_id, ws_user, ws_job, ws_conn,
                   ws_close_code, ws_sent, ws_channel, ws_published, exceptWs>>

\* await websocket.send_json({"type": "status", ...})
WsSendInitial ==
    /\ ws_pc = "send_initial"
    /\ ws_sent' = Append(ws_sent, [type |-> "status", job_id |-> ws_job[1],
                                   status |-> "queued"])
    /\ ws_pc' = "listen"
    /\ UNCHANGED <<ws_token, ws_job_id, ws_user, ws_job, ws_conn,
                   ws_close_code, ws_subscribed, ws_ever_subscribed,
                   ws_channel, ws_published, exceptWs>>

\* A worker publishes progress of some job; Redis delivers it to this
\* connection's pubsub only if it is subscribed to that job's channel
WsPublish ==
    /\ ws_published < MaxPublished
    /\ \E job_id \in DOMAIN WsJobOwner, status \in PublishedStatuses :
          ws_channel' =
              IF ws_subscribed /\ job_id = ws_job_id
              THEN Append(ws_channel, [type |-> "progress", job_id |-> job_id,
                                       status |-> status])
              ELSE ws_channel
    /\ ws_published' = ws_published + 1
    /\ UNCHANGED <<ws_pc, ws_token, ws_job_id, ws_user, ws_job, ws_conn,
                   ws_close_code, ws_subscribed, ws_ever_subscribed, ws_sent,
                   exceptWs>>

\* One turn of "async for message in pubsub.listen()": forward the message
\* and leave the loop on a terminal status
WsRelay ==
    /\ ws_pc = "listen"
    /\ ws_channel # <<>>
    /\ ws_sent' = Append(ws_sent, Head(ws_channel))
    /\ ws_channel' = Tail(ws_channel)
    /\ ws_pc' = IF Head(ws_channel).status \in {"completed", "failed", "cancelled"}
                THEN "finally" ELSE "listen"
    /\ UNCHANGED <<ws_token, ws_job_id, ws_user, ws_job, ws_conn,
                   ws_close_code, ws_subscribed, ws_ever_subscribed,
                   ws_published, exceptWs>>

\* The client goes away: WebSocketDisconnect (or another exception) ends the
\* try block
WsDisconnect ==
    /\ ws_pc \in {"send_initial", "listen"}
    /\ ws_conn' = "closed"
    /\ ws_pc' = "finally"
    /\ UNCHANGED <<ws_token, ws_job_id, ws_user, ws_job, ws_close_code,
                   ws_subscribed, ws_ever_subscribed, ws_sent, ws_channel,
                   ws_published, exceptWs>>

\* finally: await pubsub.unsubscribe(...); await pubsub.close()
WsFinally ==
    /\ ws_pc = "finally"
    /\ ws_subscribed' = FALSE
    /\ ws_channel' = <<>>
    /\ ws_pc' = "done"
    /\ UNCHANGED <<ws_token, ws_job_id, ws_user, ws_job, ws_conn,
                   ws_close_code, ws_ever_subscribed, ws_sent, ws_published,
                   exceptWs>>

IdleWs ==
    /\ ws_pc = "idle"
    /\ ws_token = MissingToken
    /\ ws_job_id = "j1"
    /\ ws_user = None
    /\ ws_job = None
    /\ ws_conn = "connecting"
    /\ ws_close_code = NoClose
    /\ ws_subscribed = FALSE
    /\ ws_ever_subscribed = FALSE
    /\ ws_sent = <<>>
    /\ ws_channel = <<>>
    /\ ws_published = 0

NextWs ==
    \/ WsConnect
    \/ WsCheckToken
    \/ WsVerifyToken
    \/ WsGetJob
    \/ WsAccept
    \/ WsSubscribe
    \/ WsSendInitial
    \/ WsPublish
    \/ WsRelay
    \/ WsDisconnect
    \/ WsFinally

-----------------------------------------------------------------------------
(* backend services/job_service.py, tasks/shootout.py, api/v1/jobs.py: one  *)
(* job row, the worker task that processes it, and users' cancel requests.  *)

\* Bound of the job model: cancel requests made while it runs
MaxCancels == 2

JobOwner == "u1"
JobUsers == {"u1", "u2"}

\* The percentages run_shootout and _process_comparison report, in the order
\* of their calls to self._progress, with the order changed
ProgressStepsOutOfOrder == <<0, 10, 5, 15, 95, 100>>

\* The percentages run_shootout and _process_comparison report, in the order
\* of their calls to self._progress (pipeline_service.py:87, 95, 99, 231,
\* 236, 102)
ProgressSteps == <<0, 5, 10, 15, 95, 100>>

\* JobStatus values that end a job's lifecycle
TerminalStatuses == {"completed", "failed", "cancelled"}

\* The row JobService.create_job inserts
NewJob ==
    [status |-> "pending", progress |-> 0, message |-> NONE,
     started_at |-> 0, completed_at |-> 0, error |-> NONE]

\* JobService.update_job_progress(job_id, status, progress, message); now is
\* datetime.now(UTC), 0 stands for a NULL timestamp
update_job_progress(j, status, progress, message, now) ==
    [j EXCEPT !.status = status,
              !.progress = progress,
              !.message = message,
              !.started_at = IF status = "running" /\ j.started_at = 0
                             THEN now ELSE @,
              !.completed_at = IF ~(status = "running" /\ j.started_at = 0)
                                  /\ status \in {"completed", "failed"}
                               THEN now ELSE @]

\* JobService.complete_job(job_id, result_path)
complete_job(j, now) ==
    update_job_progress(j, "completed", 100, "Completed successfully", now)

\* JobService.fail_job(job_id, error)
fail_job(j, error, now) ==
    [j EXCEPT !.status = "failed", !.error = error, !.completed_at = now]

\* The statuses JobService.cancel_job accepts (job_service.py:114)
Cancellable == {"pending", "queued", "running"}

\* publish_job_progress(job_id, status, progress, message)
Publish(status, progress) ==
    Append(published, [status |-> status, progress |-> progress])

\* ---- process_shootout_task ----

\* A worker takes the task from the queue
TaskStart ==
    /\ task_pc = "idle"
    /\ task_pc' = "mark_running"
    /\ UNCHANGED <<job, task_error, progress_calls, published, clock,
                   cancelVars, exceptJobs>>

\* await _update_job_status(job_uuid, JobStatus.RUNNING)
TaskMarkRunning ==
    /\ task_pc = "mark_running"
    /\ job' = update_job_progress(job, "running", 0, NONE, clock + 1)
    /\ clock' = clock + 1
    /\ task_pc' = "publish_start"
    /\ UNCHANGED <<task_error, progress_calls, published, cancelVars, exceptJobs>>

\* await publish_job_progress(status="running", progress=0); a Redis error
\* is caught by "except Exception"
TaskPublishStart ==
    /\ task_pc = "publish_start"
    /\ \E ok \in BOOLEAN :
          IF ok
          THEN /\ published' = Publish("running", 0)
               /\ task_pc' = "pipeline"
               /\ UNCHANGED task_error
          ELSE /\ task_error' = "Exception"
               /\ task_pc' = "fail"
               /\ UNCHANGED published
    /\ UNCHANGED <<job, progress_calls, clock, cancelVars, exceptJobs>>

\* progress_callback: await _update_job_progress(job_uuid, percent, message)
TaskProgress ==
    /\ task_pc = "pipeline"
    /\ progress_calls < Len(ProgressSteps)
    /\ job' = update_job_progress(job, "running",
                                  ProgressSteps[progress_calls + 1],
                                  "Processing", clock + 1)
    /\ clock' = clock + 1
    /\ progress_calls' = progress_calls + 1
    /\ task_pc' = "publish_progress"
    /\ UNCHANGED <<task_error, published, cancelVars, exceptJobs>>

\* progress_callback: await publish_job_progress(status="running",
\* progress=percent); an error inside run_shootout's try block reaches the
\* task as PipelineError, one in the first call (line 87) as it is
TaskPublishProgress ==
    /\ task_pc = "publish_progress"
    /\ \E ok \in BOOLEAN :
          IF ok
          THEN /\ published' = Publish("running", ProgressSteps[progress_calls])
               /\ task_pc' = "pipeline"
               /\ UNCHANGED task_error
          ELSE /\ task_error' = IF progress_calls = 1 THEN "Exception"
                                ELSE "PipelineError"
               /\ task_pc' = "fail"
               /\ UNCHANGED published
    /\ UNCHANGED <<job, progress_calls, clock, cancelVars, exceptJobs>>

\* _parse_config or output_dir.mkdir raises (before run_shootout's try
\* block), or _build_comparison or _process_comparison does (inside it)
TaskPipelineFails ==
    /\ task_pc = "pipeline"
    /\ progress_calls < Len(ProgressSteps)
    /\ task_error' = IF progress_calls <= 1 THEN "Exception" ELSE "PipelineError"
    /\ task_pc' = "fail"
    /\ UNCHANGED <<job, progress_calls, published, clock, cancelVars, exceptJobs>>

\* service.run_shootout returns; await _complete_job(job_uuid, result["video"])
TaskComplete ==
    /\ task_pc = "pipeline"
    /\ progress_calls = Len(ProgressSteps)
    /\ job' = complete_job(job, clock + 1)
    /\ clock' = clock + 1
    /\ task_pc' = "publish_complete"
    /\ UNCHANGED <<task_error, progress_calls, published, cancelVars, exceptJobs>>

\* await publish_job_progress(status="completed", progress=100); return result
TaskPublishComplete ==
    /\ task_pc = "publish_complete"
    /\ \E ok \in BOOLEAN :
          IF ok
          THEN /\ published' = Publish("completed", 100)
               /\ task_pc' = "returned"
               /\ UNCHANGED task_error
          ELSE /\ task_error' = "Exception"
               /\ task_pc' = "fail"
               /\ UNCHANGED published
    /\ UNCHANGED <<job, progress_calls, clock, cancelVars, exceptJobs>>

\* except PipelineError / except Exception: await _fail_job(job_uuid, ...)
TaskFail ==
    /\ task_pc = "fail"
    /\ job' = fail_job(job, task_error, clock + 1)
    /\ clock' = clock + 1
    /\ task_pc' = "publish_failed"
    /\ UNCHANGED <<task_error, progress_calls, published, cancelVars, exceptJobs>>

\* the handler's await publish_job_progress(status="failed", progress=0),
\* then raise; a Redis error here leaves the handler as the exception
TaskPublishFailed ==
    /\ task_pc = "publish_failed"
    /\ \E ok \in BOOLEAN :
          published' = IF ok THEN Publish("failed", 0) ELSE published
    /\ task_pc' = "raised"
    /\ UNCHANGED <<job, task_error, progress_calls, clock, cancelVars, exceptJobs>>

\* ---- DELETE /jobs/{job_id}: JobService.cancel_job ----

\* job = await self.get_job(user, job_id), and the two early returns
CancelRead ==
    /\ cancel_pc \in {"idle", "done"}
    /\ cancels_made < MaxCancels
    /\ cancels_made' = cancels_made + 1
    /\ \E user \in JobUsers :
          /\ cancel_user' = user
          /\ cancel_seen' = IF user = JobOwner THEN Some(job) ELSE None
          /\ IF user # JobOwner \/ job.status \notin Cancellable
             THEN /\ cancel_result' = "None"
                  /\ cancel_pc' = "done"
             ELSE /\ cancel_result' = "pending"
                  /\ cancel_pc' = "write"
    /\ UNCHANGED <<job, taskVars, published, clock, exceptJobs>>

\* job.status = CANCELLED ...; await self.db.flush(); return job
CancelWrite ==
    /\ cancel_pc = "write"
    /\ job' = [job EXCEPT !.status = "cancelled",
                          !.completed_at = clock + 1,
                          !.message = "Cancelled by user"]
    /\ clock' = clock + 1
    /\ cancel_result' = "cancelled"
    /\ cancel_pc' = "done"
    /\ UNCHANGED <<cancel_user, cancel_seen, cancels_made, taskVars,
                   published, exceptJobs>>

IdleJobs ==
    /\ job = NewJob
    /\ task_pc = "idle"
    /\ task_error = "none"
    /\ progress_calls = 0
    /\ published = <<>>
    /\ clock = 0
    /\ cancel_pc = "idle"
    /\ cancel_user = JobOwner
    /\ cancel_seen = None
    /\ cancel_result = "None"
    /\ cancels_made = 0

NextJobs ==
    \/ TaskStart
    \/ TaskMarkRunning
    \/ TaskPublishStart
    \/ TaskProgress
    \/ TaskPublishProgress
    \/ TaskPipelineFails
    \/ TaskComplete
    \/ TaskPublishComplete
    \/ TaskFail
    \/ TaskPublishFailed
    \/ CancelRead
    \/ CancelWrite

-----------------------------------------------------------------------------
(* backend api/v1/ws.py together with tasks/shootout.py and cancel_job: one  *)
(* WebSocket connection watching the job row of the job model.  The job is   *)
(* "j1" of the jobs table; Redis pub/sub hands a subscriber the messages     *)
(* published after its subscribe and none published before.                  *)

\* Connections that ask for the modelled job "j1" or for no job at all, by
\* its owner, by another user and without a token
LiveTokens ==
    {MissingToken} \cup {[text |-> "jwt", genuine |-> TRUE, sub |-> s] :
                            s \in WsUsers}
LiveJobIds == {"j1", "j9"}

\* job_progress_ws is called for a new connection
LiveConnect ==
    /\ ws_pc = "idle"
    /\ \E token \in LiveTokens, job_id \in LiveJobIds :
          /\ ws_token' = token
          /\ ws_job_id' = job_id
    /\ ws_pc' = "check_token"
    /\ UNCHANGED <<ws_user, ws_job, ws_conn, ws_close_code, ws_subscribed,
                   ws_ever_subscribed, ws_sent, ws_channel, ws_published,
                   liveVars, exceptLive>>

\* job = await get_job_for_user(user.id, job_id): the row as it is now
LiveGetJob ==
    /\ ws_pc = "get_job"
    /\ ws_job' = get_job_for_user(ws_user[1], ws_job_id)
    /\ IF ws_job' = None
       THEN /\ ws_conn' = "closed"
            /\ ws_close_code' = 4004
            /\ ws_pc' = "done"
            /\ UNCHANGED ws_snapshot
       ELSE /\ ws_pc' = "accept"
            /\ ws_snapshot' = job.status
            /\ UNCHANGED <<ws_conn, ws_close_code>>
    /\ UNCHANGED <<ws_token, ws_job_id, ws_user, ws_subscribed,
                   ws_ever_subscribed, ws_sent, ws_channel, ws_published,
                   ws_cursor, exceptLive>>

\* pubsub = await subscribe_job_progress(job_id)
LiveSubscribe ==
    /\ ws_pc = "subscribe"
    /\ ws_subscribed' = TRUE
    /\ ws_ever_subscribed' = TRUE
    /\ ws_cursor' = Len(published) + 1
    /\ ws_pc' = "send_initial"
    /\ UNCHANGED <<ws_token, ws_job_id, ws_user, ws_job, ws_conn,
                   ws_close_code, ws_sent, ws_channel, ws_published,
                   ws_snapshot, exceptLive>>

\* await websocket.send_json({"type": "status", "status": job.status.value})
LiveSendInitial ==
    /\ ws_pc = "send_initial"
    /\ ws_sent' = Append(ws_sent, [type |-> "status", job_id |-> ws_job[1],
                                   status |-> ws_snapshot])
    /\ ws_pc' = "listen"
    /\ UNCHANGED <<ws_token, ws_job_id, ws_user, ws_job, ws_conn,
                   ws_close_code, ws_subscribed, ws_ever_subscribed,
                   ws_channel, ws_published, ws_cursor, ws_snapshot,
                   exceptLive>>

\* One turn of "async for message in pubsub.listen()" on the channel of j1
LiveRelay ==
    /\ ws_pc = "listen"
    /\ ws_cursor <= Len(published)
    /\ ws_sent' = Append(ws_sent, [type |-> "progress", job_id |-> "j1",
                                   status |-> published[ws_cursor].status])
    /\ ws_cursor' = ws_cursor + 1
    /\ ws_pc' = IF published[ws_cursor].status \in {"completed", "failed", "cancelled"}
                THEN "finally" ELSE "listen"
    /\ UNCHANGED <<ws_token, ws_job_id, ws_user, ws_job, ws_conn,
                   ws_close_code, ws_subscribed, ws_ever_subscribed,
                   ws_channel, ws_published, ws_snapshot, exceptLive>>

IdleLive ==
    /\ ws_cursor = 0
    /\ ws_snapshot = NONE

NextLive ==
    \/ LiveConnect
    \/ WsCheckToken
    \/ WsVerifyToken
    \/ LiveGetJob
    \/ WsAccept
    \/ LiveSubscribe
    \/ LiveSendInitial
    \/ LiveRelay
    \/ WsDisconnect
    \/ WsFinally
    \/ NextJobs

-----------------------------------------------------------------------------
(* worktree/registry.py and worktree/cli.py: the SQLite registry of          *)
(* worktrees and the setup, teardown and prune commands, run by concurrent   *)
(* processes.  SQLite executes each statement atomically; a branch name is   *)
(* a sequence of characters, a worktree's directory stands for its path.     *)

\* Bounds of the registry model: commands started in all, and
\* settings.max_worktrees (10 in config.py) scaled down
MaxOps == 3
max_worktrees == 2

RegProcs == {"p1", "p2"}

MainBranch == <<"m">>
Branches == {MainBranch, <<"1", "/", "a">>, <<"2", "/", "b">>}

\* git_ops.generate_worktree_name(branch): branch.replace("/", "-")
generate_worktree_name(branch) ==
    [i \in DOMAIN branch |-> IF branch[i] = "/" THEN "-" ELSE branch[i]]

WorktreeNames == {generate_worktree_name(b) : b \in Branches}

\* What a user can type for name_or_branch
NamesOrBranches == Branches \cup WorktreeNames

ActiveRows(rows) == {r \in rows : r.status = "active"}

\* The row register_worktree inserts
NewRow(branch, worktree_name, offset) ==
    [branch |-> branch, worktree_name |-> worktree_name,
     status |-> "active", offset |-> offset]

\* SCHEMA_SQL without the index idx_worktrees_offset_active
IntegrityViolationWithoutOffsetIndex(rows, row) ==
    \E r \in rows : r.branch = row.branch \/ r.worktree_name = row.worktree_name

\* SCHEMA_SQL: branch UNIQUE, worktree_name UNIQUE, and the unique index on
\* offset WHERE status = 'active'; TRUE when inserting row raises
\* sqlite3.IntegrityError
IntegrityViolation(rows, row) ==
    \/ \E r \in rows : r.branch = row.branch
    \/ \E r \in rows : r.worktree_name = row.worktree_name
    \/ \E r \in ActiveRows(rows) : row.status = "active" /\ r.offset = row.offset

NoOffset == -1

\* The loop of find_available_offset from a given offset on; NoOffset stands
\* for NoAvailableOffsetError
RECURSIVE first_free_offset(_, _)
first_free_offset(used_offsets, offset) ==
    IF offset \notin used_offsets THEN offset
    ELSE IF offset + 1 >= max_worktrees THEN NoOffset
    ELSE first_free_offset(used_offsets, offset + 1)

\* find_available_offset()
find_available_offset(rows) ==
    first_free_offset({r.offset : r \in ActiveRows(rows)}, 0)

\* get_worktree(name_or_branch): the active rows that match (at most one
\* is what fetchone returns)
get_worktree(rows, n) ==
    {r \in ActiveRows(rows) : r.worktree_name = n \/ r.branch = n}

\* delete_worktree that only changes the status of the matching rows
delete_worktree_softly(rows, n) ==
    {IF r.worktree_name = n \/ r.branch = n
     THEN [r EXCEPT !.status = "removed"] ELSE r : r \in rows}

\* delete_worktree(name_or_branch): DELETE ... WHERE worktree_name = ? OR
\* branch = ?
delete_worktree(rows, n) ==
    {r \in rows : ~(r.worktree_name = n \/ r.branch = n)}

\* mark_worktree_removed(name_or_branch): UPDATE ... SET status = 'removed'
\* WHERE (worktree_name = ? OR branch = ?) AND status = 'active'
mark_worktree_removed(rows, n) ==
    {IF (r.worktree_name = n \/ r.branch = n) /\ r.status = "active"
     THEN [r EXCEPT !.status = "removed"] ELSE r : r \in rows}

\* The updates of prune_stale_entries for the rows it read: UPDATE ... SET
\* status = 'removed' WHERE worktree_name = ?, for each whose path is gone
prune_updates(rows, names_read, existing) ==
    {IF r.worktree_name \in names_read /\ r.worktree_name \notin existing
     THEN [r EXCEPT !.status = "removed"] ELSE r : r \in rows}

NoRegLocal ==
    [cmd |-> "none", branch |-> <<>>, worktree_name |-> <<>>,
     offset |-> NoOffset, names_read |-> {}, result |-> "none"]

\* A command ends: the process is idle again and keeps the outcome
RegEnd(p, result) ==
    /\ reg_pc' = [reg_pc EXCEPT ![p] = "idle"]
    /\ reg_local' = [reg_local EXCEPT ![p].result = result]

RegGoto(p, label) ==
    /\ reg_pc' = [reg_pc EXCEPT ![p] = label]
    /\ UNCHANGED reg_local

\* ---- cli.setup ----

\* setup(branch) up to the check "Worktree already registered"
SetupStart(p) ==
    /\ reg_pc[p] = "idle"
    /\ reg_ops < MaxOps
    /\ reg_ops' = reg_ops + 1
    /\ \E branch \in Branches :
          LET started == [NoRegLocal EXCEPT
                            !.cmd = "setup", !.branch = branch,
                            !.worktree_name = generate_worktree_name(branch)]
          IN  IF get_worktree(worktrees, branch) # {}
              THEN /\ reg_local' = [reg_local EXCEPT
                                        ![p] = [started EXCEPT !.result = "already registered"]]
                   /\ UNCHANGED reg_pc
              ELSE /\ reg_local' = [reg_local EXCEPT ![p] = started]
                   /\ reg_pc' = [reg_pc EXCEPT ![p] = "find_offset"]
    /\ UNCHANGED <<worktrees, disk, exceptRegistry>>

\* register_worktree: offset = find_available_offset()
SetupFindOffset(p) ==
    /\ reg_pc[p] = "find_offset"
    /\ LET offset == find_available_offset(worktrees)
       IN  IF offset = NoOffset
           THEN RegEnd(p, "NoAvailableOffsetError")
           ELSE /\ reg_local' = [reg_local EXCEPT ![p].offset = offset]
                /\ reg_pc' = [reg_pc EXCEPT ![p] = "register"]
    /\ UNCHANGED <<worktrees, disk, reg_ops, exceptRegistry>>

\* register_worktree: the INSERT, and WorktreeExistsError for IntegrityError
SetupRegister(p) ==
    /\ reg_pc[p] = "register"
    /\ LET row == NewRow(reg_local[p].branch, reg_local[p].worktree_name,
                         reg_local[p].offset)
       IN  IF IntegrityViolation(worktrees, row)
           THEN /\ RegEnd(p, "WorktreeExistsError")
                /\ UNCHANGED worktrees
           ELSE /\ worktrees' = worktrees \cup {row}
                /\ RegGoto(p, IF reg_local[p].branch = MainBranch
                              THEN "start" ELSE "create")
    /\ UNCHANGED <<disk, reg_ops, exceptRegistry>>

\* Step 3: create_worktree(branch, worktree_path); git refuses a path that
\* exists and may fail for other reasons
SetupCreateWorktree(p) ==
    /\ reg_pc[p] = "create"
    /\ \E ok \in BOOLEAN :
          IF ok /\ reg_local[p].worktree_name \notin disk
          THEN /\ disk' = disk \cup {reg_local[p].worktree_name}
               /\ RegGoto(p, "start")
          ELSE /\ RegGoto(p, "rollback")
               /\ UNCHANGED disk
    /\ UNCHANGED <<worktrees, reg_ops, exceptRegistry>>

\* except GitError: delete_worktree(worktree_name); raise typer.Exit(1)
SetupRollback(p) ==
    /\ reg_pc[p] = "rollback"
    /\ worktrees' = delete_worktree(worktrees, reg_local[p].worktree_name)
    /\ RegEnd(p, "GitError")
    /\ UNCHANGED <<disk, reg_ops, exceptRegistry>>

\* Steps 4 to 10: configuration files, volumes, start_services; a failure to
\* start the services ends setup with typer.Exit(1)
SetupStartServices(p) ==
    /\ reg_pc[p] = "start"
    /\ \E ok \in BOOLEAN :
          RegEnd(p, IF ok THEN "created" ELSE "Failed to start services")
    /\ UNCHANGED <<worktrees, disk, reg_ops, exceptRegistry>>

\* ---- cli.teardown ----

\* teardown(name_or_branch) up to the confirmation
TeardownStart(p) ==
    /\ reg_pc[p] = "idle"
    /\ reg_ops < MaxOps
    /\ reg_ops' = reg_ops + 1
    /\ \E n \in NamesOrBranches :
          LET found == get_worktree(worktrees, n)
              started == [NoRegLocal EXCEPT !.cmd = "teardown"]
          IN  IF found = {}
              THEN /\ reg_local' = [reg_local EXCEPT
                                        ![p] = [started EXCEPT !.result = "Worktree not found"]]
                   /\ UNCHANGED reg_pc
              ELSE \E worktree \in found :
                      IF worktree.branch = MainBranch
                      THEN /\ reg_local' = [reg_local EXCEPT
                                                ![p] = [started EXCEPT !.result = "Cannot teardown main"]]
                           /\ UNCHANGED reg_pc
                      ELSE /\ reg_local' = [reg_local EXCEPT
                                                ![p] = [started EXCEPT
                                                            !.branch = worktree.branch,
                                                            !.worktree_name = worktree.worktree_name,
                                                            !.offset = worktree.offset]]
                           /\ reg_pc' = [reg_pc EXCEPT ![p] = "remove_worktree"]
    /\ UNCHANGED <<worktrees, disk, exceptRegistry>>

\* Steps 1 to 4: remove_volumes, remove_worktree(worktree_path, force=True),
\* prune_worktrees, delete_branch
TeardownRemoveWorktree(p) ==
    /\ reg_pc[p] = "remove_worktree"
    /\ disk' = disk \ {reg_local[p].worktree_name}
    /\ RegGoto(p, "delete")
    /\ UNCHANGED <<worktrees, reg_ops, exceptRegistry>>

\* Step 5: delete_worktree(worktree.worktree_name)
TeardownDelete(p) ==
    /\ reg_pc[p] = "delete"
    /\ worktrees' = delete_worktree(worktrees, reg_local[p].worktree_name)
    /\ RegEnd(p, IF get_worktree(worktrees, reg_local[p].worktree_name) = {}
                    /\ worktrees' = worktrees
                 THEN "WorktreeNotFoundError" ELSE "torn down")
    /\ UNCHANGED <<disk, reg_ops, exceptRegistry>>

\* ---- cli.prune, registry.mark_worktree_removed ----

\* prune_stale_entries: the SELECT of the active rows
PruneRead(p) ==
    /\ reg_pc[p] = "idle"
    /\ reg_ops < MaxOps
    /\ reg_ops' = reg_ops + 1
    /\ reg_local' = [reg_local EXCEPT
                         ![p] = [NoRegLocal EXCEPT
                                     !.cmd = "prune",
                                     !.names_read = {r.worktree_name :
                                                       r \in ActiveRows(worktrees)}]]
    /\ reg_pc' = [reg_pc EXCEPT ![p] = "prune_update"]
    /\ UNCHANGED <<worktrees, disk, exceptRegistry>>

\* prune_stale_entries: the loop over the rows read, and the commit
PruneUpdate(p) ==
    /\ reg_pc[p] = "prune_update"
    /\ worktrees' = prune_updates(worktrees, reg_local[p].names_read, disk)
    /\ RegEnd(p, "pruned")
    /\ UNCHANGED <<disk, reg_ops, exceptRegistry>>

\* mark_worktree_removed(name_or_branch)
MarkWorktreeRemoved(p) ==
    /\ reg_pc[p] = "idle"
    /\ reg_ops < MaxOps
    /\ reg_ops' = reg_ops + 1
    /\ \E n \in NamesOrBranches :
          /\ worktrees' = mark_worktree_removed(worktrees, n)
          /\ reg_local' = [reg_local EXCEPT
                               ![p] = [NoRegLocal EXCEPT
                                           !.cmd = "mark_removed",
                                           !.result = IF get_worktree(worktrees, n) = {}
                                                      THEN "WorktreeNotFoundError"
                                                      ELSE "removed"]]
    /\ UNCHANGED <<reg_pc, disk, exceptRegistry>>

\* A user deletes a worktree's directory by hand
RemoveDirectory ==
    /\ \E name \in disk \ {generate_worktree_name(MainBranch)} :
          disk' = disk \ {name}
    /\ UNCHANGED <<worktrees, reg_pc, reg_local, reg_ops, exceptRegistry>>

IdleRegistry ==
    /\ worktrees = {}
    /\ disk = {generate_worktree_name(MainBranch)}
    /\ reg_pc = [p \in RegProcs |-> "idle"]
    /\ reg_local = [p \in RegProcs |-> NoRegLocal]
    /\ reg_ops = 0

NextRegistry ==
    \/ \E p \in RegProcs : SetupStart(p)
    \/ \E p \in RegProcs : SetupFindOffset(p)
    \/ \E p \in RegProcs : SetupRegister(p)
    \/ \E p \in RegProcs : SetupCreateWorktree(p)
    \/ \E p \in RegProcs : SetupRollback(p)
    \/ \E p \in RegProcs : SetupStartServices(p)
    \/ \E p \in RegProcs : TeardownStart(p)
    \/ \E p \in RegProcs : TeardownRemoveWorktree(p)
    \/ \E p \in RegProcs : TeardownDelete(p)
    \/ \E p \in RegProcs : PruneRead(p)
    \/ \E p \in RegProcs : PruneUpdate(p)
    \/ \E p \in RegProcs : MarkWorktreeRemoved(p)
    \/ RemoveDirectory

-----------------------------------------------------------------------------
(* backend services/model_downloader.py: download_model for one model, run   *)
(* by concurrent callers.  A file is its content as _validate_model sees it: *)
(* a valid NAM model or not; "absent" is a path that does not exist.  The    *)
(* callers share cache_path and temp_path = cache_path.with_suffix(".tmp").  *)

\* Bound of the downloader model: calls of download_model started in all
MaxDownloads == 3

Downloaders == {"d1", "d2"}

\* What the pre-signed URL answers: a body, or an error httpx raises
Responses == {"valid", "invalid", "HTTPStatusError", "RequestError"}

\* _validate_model(path, model): open and read raise for a missing file,
\* which "except Exception" turns into False
validate_model(file) == file = "valid"

NoDownload == [force |-> FALSE, content |-> "absent", valid |-> FALSE,
               result |-> "none"]

DlEnd(d, result) ==
    /\ dl_pc' = [dl_pc EXCEPT ![d] = "idle"]
    /\ dl_local' = [dl_local EXCEPT ![d].result = result]

\* download_model(client, model, force) up to the cache check
DownloadStart(d) ==
    /\ dl_pc[d] = "idle"
    /\ dl_calls < MaxDownloads
    /\ dl_calls' = dl_calls + 1
    /\ \E force \in BOOLEAN :
          IF ~force /\ dl_cache # "absent"
          THEN /\ dl_local' = [dl_local EXCEPT
                                   ![d] = [NoDownload EXCEPT !.force = force,
                                                             !.result = "cached"]]
               /\ UNCHANGED dl_pc
          ELSE /\ dl_local' = [dl_local EXCEPT
                                   ![d] = [NoDownload EXCEPT !.force = force]]
               /\ dl_pc' = [dl_pc EXCEPT ![d] = "get"]
    /\ UNCHANGED <<dl_cache, dl_temp, exceptDownloader>>

\* response = await http.get(model.model_url); response.raise_for_status()
DownloadGet(d) ==
    /\ dl_pc[d] = "get"
    /\ \E response \in Responses :
          IF response \in {"HTTPStatusError", "RequestError"}
          THEN DlEnd(d, "ModelDownloadError")
          ELSE /\ dl_local' = [dl_local EXCEPT ![d].content = response]
               /\ dl_pc' = [dl_pc EXCEPT ![d] = "write"]
    /\ UNCHANGED <<dl_cache, dl_temp, dl_calls, exceptDownloader>>

\* async with aiofiles.open(temp_path, "wb") as f: await f.write(content)
DownloadWriteTemp(d) ==
    /\ dl_pc[d] = "write"
    /\ dl_temp' = dl_local[d].content
    /\ dl_pc' = [dl_pc EXCEPT ![d] = "validate"]
    /\ UNCHANGED <<dl_cache, dl_local, dl_calls, exceptDownloader>>

\* _validate_model(temp_path, model): the file is read and judged; closing
\* it is awaited before the result is used
DownloadValidate(d) ==
    /\ dl_pc[d] = "validate"
    /\ dl_local' = [dl_local EXCEPT ![d].valid = validate_model(dl_temp)]
    /\ dl_pc' = [dl_pc EXCEPT ![d] = "finish"]
    /\ UNCHANGED <<dl_cache, dl_temp, dl_calls, exceptDownloader>>

\* if not valid: temp_path.unlink(missing_ok=True); raise ModelDownloadError
\* else: temp_path.rename(cache_path), which raises FileNotFoundError when
\* the temporary file is gone
DownloadFinish(d) ==
    /\ dl_pc[d] = "finish"
    /\ IF ~dl_local[d].valid
       THEN /\ dl_temp' = "absent"
            /\ DlEnd(d, "ModelDownloadError")
            /\ UNCHANGED dl_cache
       ELSE IF dl_temp = "absent"
            THEN /\ DlEnd(d, "FileNotFoundError")
                 /\ UNCHANGED <<dl_cache, dl_temp>>
            ELSE /\ dl_cache' = dl_temp
                 /\ dl_temp' = "absent"
                 /\ DlEnd(d, "downloaded")
    /\ UNCHANGED <<dl_calls, exceptDownloader>>

IdleDownloader ==
    /\ dl_cache = "absent"
    /\ dl_temp = "absent"
    /\ dl_pc = [d \in Downloaders |-> "idle"]
    /\ dl_local = [d \in Downloaders |-> NoDownload]
    /\ dl_calls = 0

NextDownloader ==
    \/ \E d \in Downloaders : DownloadStart(d)
    \/ \E d \in Downloaders : DownloadGet(d)
    \/ \E d \in Downloaders : DownloadWriteTemp(d)
    \/ \E d \in Downloaders : DownloadValidate(d)
    \/ \E d \in Downloaders : DownloadFinish(d)

-----------------------------------------------------------------------------
(* Specifications *)

IdleTracker ==
    /\ sample_rate = 48000
    /\ InitTrackerVars

InitTracker ==
    /\ IdleDownloader
    /\ IdleRegistry
    /\ IdleLive
    /\ IdleJobs
    /\ IdleWs
    /\ IdleMetrics
    /\ IdleNormalize
    /\ IdlePreset
    /\ sample_rate \in SampleRates
    /\ InitTrackerVars
    /\ IdleDiscovery
    /\ IdleChain
    /\ IdleParse
    /\ IdleLevel

NextTracker ==
    \/ AddSegmentSamples
    \/ AddSegmentMs
    \/ AddSegmentNoDuration
    \/ AssembleMetadata

SpecTracker == InitTracker /\ [][NextTracker]_vars

\* One caller at a time (the single-threaded use of spec 5)
InitDiscovery ==
    /\ IdleDownloader
    /\ IdleRegistry
    /\ IdleLive
    /\ IdleJobs
    /\ IdleWs
    /\ IdleMetrics
    /\ IdleNormalize
    /\ IdlePreset
    /\ callers = {"t1"}
    /\ fs \in SUBSET AllPaths
    /\ InitDiscoveryVars
    /\ IdleTracker
    /\ IdleChain
    /\ IdleParse
    /\ IdleLevel

SpecDiscovery == InitDiscovery /\ [][NextDiscovery]_vars

\* Several threads call find_nam_vst3 concurrently
InitRace ==
    /\ IdleDownloader
    /\ IdleRegistry
    /\ IdleLive
    /\ IdleJobs
    /\ IdleWs
    /\ IdleMetrics
    /\ IdleNormalize
    /\ IdlePreset
    /\ callers = Threads
    /\ fs \in {{}, {NAM_VST3_SEARCH_PATHS[2]}, {EnvTarget}}
    /\ InitDiscoveryVars
    /\ IdleTracker
    /\ IdleChain
    /\ IdleParse
    /\ IdleLevel

SpecRace == InitRace /\ [][NextDiscovery]_vars

\* One call of a chain-processing entry point in a process whose discovery
\* cache is empty or already filled, with or without a plugin installed
InitChain ==
    /\ IdleDownloader
    /\ IdleRegistry
    /\ IdleLive
    /\ IdleJobs
    /\ IdleWs
    /\ IdleMetrics
    /\ IdleNormalize
    /\ IdlePreset
    /\ IdleChain
    /\ IdleTracker
    /\ IdleParse
    /\ IdleLevel
    /\ env_value \in {NONE, EnvTarget}
    /\ fs \in {{}, {NAM_VST3_SEARCH_PATHS[2]}, {EnvTarget}}
    /\ nam_vst3_path \in {NONE, "", NAM_VST3_SEARCH_PATHS[1]}
    /\ callers = {}
    /\ pc = [t \in Threads |-> "idle"]
    /\ local = [t \in Threads |-> NoLocal]
    /\ call = [t \in Threads |-> NoCall]
    /\ calls_made = [t \in Threads |-> 0]
    /\ env_changes = 0
    /\ history = {}
    /\ first_result = Pending

SpecChain == InitChain /\ [][NextChain]_vars

InitParse ==
    /\ IdleDownloader
    /\ IdleRegistry
    /\ IdleLive
    /\ IdleJobs
    /\ IdleWs
    /\ IdleMetrics
    /\ IdleNormalize
    /\ IdlePreset
    /\ IdleParse
    /\ IdleTracker
    /\ IdleDiscovery
    /\ IdleChain
    /\ IdleLevel

SpecParse == InitParse /\ [][NextParse]_vars

InitLevel ==
    /\ IdleDownloader
    /\ IdleRegistry
    /\ IdleLive
    /\ IdleJobs
    /\ IdleWs
    /\ IdleMetrics
    /\ IdleNormalize
    /\ IdlePreset
    /\ IdleLevel
    /\ IdleTracker
    /\ IdleDiscovery
    /\ IdleChain
    /\ IdleParse

SpecLevel == InitLevel /\ [][NextLevel]_vars

InitPreset ==
    /\ IdleDownloader
    /\ IdleRegistry
    /\ IdleLive
    /\ IdleJobs
    /\ IdleWs
    /\ IdleMetrics
    /\ IdleNormalize
    /\ IdlePreset
    /\ IdleTracker
    /\ IdleDiscovery
    /\ IdleChain
    /\ IdleParse
    /\ IdleLevel

SpecPreset == InitPreset /\ [][NextPreset]_vars

InitNormalize ==
    /\ IdleDownloader
    /\ IdleRegistry
    /\ IdleLive
    /\ IdleJobs
    /\ IdleWs
    /\ IdleMetrics
    /\ IdleNormalize
    /\ IdleTracker
    /\ IdleDiscovery
    /\ IdleChain
    /\ IdleParse
    /\ IdleLevel
    /\ IdlePreset

SpecNormalize == InitNormalize /\ [][NextNormalize]_vars

InitMetrics ==
    /\ IdleDownloader
    /\ IdleRegistry
    /\ IdleLive
    /\ IdleJobs
    /\ IdleWs
    /\ IdleMetrics
    /\ IdleTracker
    /\ IdleDiscovery
    /\ IdleChain
    /\ IdleParse
    /\ IdleLevel
    /\ IdlePreset
    /\ IdleNormalize

SpecMetrics == InitMetrics /\ [][NextMetrics]_vars

InitWs ==
    /\ IdleDownloader
    /\ IdleRegistry
    /\ IdleLive
    /\ IdleJobs
    /\ IdleWs
    /\ IdleTracker
    /\ IdleDiscovery
    /\ IdleChain
    /\ IdleParse
    /\ IdleLevel
    /\ IdlePreset
    /\ IdleNormalize
    /\ IdleMetrics

SpecWs == InitWs /\ [][NextWs]_vars

\* One job, pending or already queued, its task, and cancel requests
InitJobs ==
    /\ IdleDownloader
    /\ IdleRegistry
    /\ IdleLive
    /\ job \in {NewJob, [NewJob EXCEPT !.status = "queued"]}
    /\ task_pc = "idle"
    /\ task_error = "none"
    /\ progress_calls = 0
    /\ published = <<>>
    /\ clock = 0
    /\ cancel_pc = "idle"
    /\ cancel_user = JobOwner
    /\ cancel_seen = None
    /\ cancel_result = "None"
    /\ cancels_made = 0
    /\ IdleTracker
    /\ IdleDiscovery
    /\ IdleChain
    /\ IdleParse
    /\ IdleLevel
    /\ IdlePreset
    /\ IdleNormalize
    /\ IdleMetrics
    /\ IdleWs

SpecJobs == InitJobs /\ [][NextJobs]_vars


\* One connection and one job; the event loop runs every ready coroutine, the
\* broker hands the queued task to a worker, and the pipeline returns or
\* raises.  Connecting, disconnecting and cancelling are the users' choice.
InitLive ==
    /\ IdleDownloader
    /\ IdleRegistry
    /\ IdleTracker
    /\ IdleDiscovery
    /\ IdleChain
    /\ IdleParse
    /\ IdleLevel
    /\ IdlePreset
    /\ IdleNormalize
    /\ IdleMetrics
    /\ IdleWs
    /\ IdleLive
    /\ job \in {NewJob, [NewJob EXCEPT !.status = "queued"]}
    /\ task_pc = "idle"
    /\ task_error = "none"
    /\ progress_calls = 0
    /\ published = <<>>
    /\ clock = 0
    /\ cancel_pc = "idle"
    /\ cancel_user = JobOwner
    /\ cancel_seen = None
    /\ cancel_result = "None"
    /\ cancels_made = 0

FairLive ==
    /\ WF_vars(WsCheckToken)
    /\ WF_vars(WsVerifyToken)
    /\ WF_vars(LiveGetJob)
    /\ WF_vars(WsAccept)
    /\ WF_vars(LiveSubscribe)
    /\ WF_vars(LiveSendInitial)
    /\ WF_vars(LiveRelay)
    /\ WF_vars(WsFinally)
    /\ WF_vars(TaskStart)
    /\ WF_vars(TaskMarkRunning)
    /\ WF_vars(TaskPublishStart)
    /\ WF_vars(TaskPublishProgress)
    /\ WF_vars(TaskProgress)
    /\ WF_vars(TaskComplete)
    /\ WF_vars(TaskPublishComplete)
    /\ WF_vars(TaskFail)
    /\ WF_vars(TaskPublishFailed)
    /\ WF_vars(CancelWrite)

SpecLive == InitLive /\ [][NextLive]_vars /\ FairLive


\* The registry after init_registry, the main worktree's directory in place
InitRegistry ==
    /\ IdleDownloader
    /\ IdleRegistry
    /\ IdleTracker
    /\ IdleDiscovery
    /\ IdleChain
    /\ IdleParse
    /\ IdleLevel
    /\ IdlePreset
    /\ IdleNormalize
    /\ IdleMetrics
    /\ IdleWs
    /\ IdleJobs
    /\ IdleLive

SpecRegistry == InitRegistry /\ [][NextRegistry]_vars


\* An empty cache directory and two callers of download_model
InitDownloader ==
    /\ IdleDownloader
    /\ IdleTracker
    /\ IdleDiscovery
    /\ IdleChain
    /\ IdleParse
    /\ IdleLevel
    /\ IdlePreset
    /\ IdleNormalize
    /\ IdleMetrics
    /\ IdleWs
    /\ IdleJobs
    /\ IdleLive
    /\ IdleRegistry

SpecDownloader == InitDownloader /\ [][NextDownloader]_vars

-----------------------------------------------------------------------------
(* Claims *)

RECURSIVE SumDurations(_)
SumDurations(segs) ==
    IF segs = <<>> THEN 0
    ELSE SumDurations(SubSeq(segs, 1, Len(segs) - 1)) + Last(segs).duration_ms

\* C1: segment 0 starts at 0 and every later segment starts where the
\* previous one ends (no gaps, no overlaps between consecutive segments).
C1_Contiguous ==
    /\ (Len(segments) >= 1 => segments[1].start_ms = 0)
    /\ \A n \in 2..Len(segments) : segments[n].start_ms = segments[n-1].end_ms

\* C1 witness: three segments added through both argument shapes.
C1_Witness ==
    /\ Len(segments) = 3
    /\ segments[1].source_end_sample = 48000 /\ segments[1].duration_ms = 1000
    /\ segments[2].duration_ms = 2000 /\ segments[2].start_ms = 1000
    /\ segments[3].source_end_sample = 72001 /\ segments[3].start_ms = 3000

\* C4: total_duration_ms is the sum of the durations (ms) of all segments
\* added so far, and 0 for an empty tracker.
C4_TotalIsSum ==
    /\ total_duration_ms(segments) = SumDurations(segments)
    /\ (segments = <<>> => total_duration_ms(segments) = 0)

\* C4 witness: 1000, 2000 and 1500 ms were added and the total is 4500.
C4_Witness ==
    /\ Len(segments) = 3
    /\ segments[1].duration_ms = 1000
    /\ segments[2].duration_ms = 2000
    /\ segments[3].duration_ms = 1500
    /\ total_duration_ms(segments) = 4500

\* C8 (as claimed): every appended SegmentTimestamps has position >= 0,
\* start_ms >= 0 and end_ms >= start_ms.
C8_SegmentsWellFormed ==
    \A n \in 1..Len(segments) :
        /\ segments[n].position >= 0
        /\ segments[n].start_ms >= 0
        /\ segments[n].end_ms >= segments[n].start_ms

\* C10 (as claimed): an assembled ProcessingMetadata carries the tracker's
\* total_duration_ms and segment_count as they were at assembly.
C10_MetadataFromTracker ==
    metadata.assembled =>
        /\ metadata.total_duration_ms = tracker_at_assembly.total_duration_ms
        /\ metadata.segment_count = tracker_at_assembly.segment_count

\* C8 witness of the failing case: a negative duration was accepted.
C8_NegativeAccepted ==
    \E n \in 1..Len(segments) : segments[n].end_ms < segments[n].start_ms

\* C10 witness of the failing case: assembled while the tracker held segments.
C10_AssembledWithSegments ==
    metadata.assembled /\ tracker_at_assembly.segment_count > 0

\* C2: with one caller at a time, a call that starts after an earlier call
\* has returned reads neither the override variable nor the filesystem and
\* returns what the first call returned, whatever happened to the plugin
\* files in between.
C2_ScanOnce ==
    /\ \A h \in history :
           h.after_return => (~h.scanned /\ h.value = first_result)
    /\ \A t \in callers : call[t].after_return => ~call[t].scanned

\* C2 witness: the first call found nothing, a plugin file appeared, and a
\* later call that ran while the file was there returned None again.
C2_Witness ==
    /\ first_result = NONE
    /\ \E h \in history :
           h.after_return /\ h.plugin_present /\ h.value = NONE

\* C7 (as claimed): under concurrent calls every call returns None or a
\* plugin path, a call that starts once the cache is populated and no call
\* is in flight returns the cached result without scanning, and once all
\* calls have returned the cache is populated.
C7_RaceSafe ==
    /\ \A h \in history :
           /\ h.value \in {NONE} \cup AllPaths
           /\ h.expected # AnyResult => (~h.scanned /\ h.value = h.expected)
    /\ ((\A t \in callers : pc[t] = "idle") /\ history # {}) =>
           nam_vst3_path # NONE

\* C7, the part of the claim that does hold under the race.
C7_EventuallyConsistent ==
    /\ \A h \in history :
           h.expected # AnyResult => (~h.scanned /\ h.value = h.expected)
    /\ ((\A t \in callers : pc[t] = "idle") /\ history # {}) =>
           nam_vst3_path # NONE

\* C3 (as claimed): in every chain-processing entry point, an amp effect for
\* which the plugin path was selected and the plugin failed (loading it,
\* building the preset or handing the preset over) is processed by local
\* inference, and the plugin failure does not end the call.
C3_PluginFailureFallsBack ==
    \A i \in 1..Len(chain_log) :
        (/\ chain_log[i].effect_type = "nam"
         /\ chain_log[i].plugin_selected
         /\ chain_log[i].plugin_fault # "none")
        => chain_log[i].path_taken = "local"

\* C3, restricted to process_chain, where the fallback exists.
C3_FallbackInProcessChain ==
    chain_entry = "process_chain" => C3_PluginFailureFallsBack

\* C3: a plugin fault met in process_chain and survived through the fallback.
C3_FallbackTaken ==
    /\ chain_entry = "process_chain"
    /\ chain_result = "returned"
    /\ \E i \in 1..Len(chain_log) :
          chain_log[i].plugin_fault = "generate_preset_bytes"
          /\ chain_log[i].path_taken = "local"

\* The comma-separated tokens of the parsed text, as written
TokensOf(text) == Split(text, ",")
NoColon(token) == \A j \in 1..Len(token) : token[j] # ":"
TypeOfToken(token) == Lower(Strip(SplitFirst(token, ":")[1]))
BadToken(token) == NoColon(token) \/ TypeOfToken(token) \notin valid_types
Blank(token) == \A j \in 1..Len(token) : IsSpace(token[j])

\* The error the first token of `tokens` satisfying Offends must produce:
\* no effects, the offending token in the message, and for an unknown type
\* the list of valid types.
RejectedFor(result, token) ==
    /\ ~result.ok
    /\ result.error = "ValueError"
    /\ IF NoColon(token)
       THEN result.token = Strip(token)
       ELSE result.token = TypeOfToken(token) /\ result.valid = valid_types

\* C5 (as claimed): whenever any comma-separated token lacks a colon or has
\* a type outside the fixed set, the whole input is rejected with an error
\* naming the first such token, and no chain is returned.
C5_RejectsAnyBadToken ==
    parse_result # NotCalled =>
        LET tokens == TokensOf(chain_str)
            bad == {i \in 1..Len(tokens) : BadToken(tokens[i])}
        IN  bad # {} =>
               RejectedFor(parse_result,
                           tokens[CHOOSE i \in bad : \A j \in bad : i <= j])

\* C5 (amended): the same for every token that is not blank; blank tokens
\* (empty or whitespace only) are skipped.
C5_RejectsAnyNonBlankBadToken ==
    parse_result # NotCalled =>
        LET tokens == TokensOf(chain_str)
            bad == {i \in 1..Len(tokens) :
                       ~Blank(tokens[i]) /\ BadToken(tokens[i])}
        IN  bad # {} =>
               RejectedFor(parse_result,
                           tokens[CHOOSE i \in bad : \A j \in bad : i <= j])

\* C5 witness: a token without a colon between two valid tokens is rejected
\* and named in the error.
C5_Witness ==
    /\ chain_str = Join(<< <<"i","r",":","x">>, <<"x">>, <<"e","q",":">> >>)
    /\ ~parse_result.ok
    /\ parse_result.error = "ValueError"
    /\ parse_result.token = <<"x">>

\* C6 (as claimed): parsing never yields an empty chain, and every
\* SignalChain built by _load_signal_chains has at least one effect.
C6_NoEmptyChain ==
    /\ (parse_result.ok => parse_result.effects # <<>>)
    /\ (load_result.ok =>
           \A i \in 1..Len(load_result.signal_chains) :
               load_result.signal_chains[i].chain # <<>>)

\* A silent buffer: it has samples and all of them are zero.
Silent(audio) == audio # <<>> /\ \A i \in 1..Len(audio) : audio[i] = 0

RECURSIVE unpack_le(_)
unpack_le(bytes) ==
    IF bytes = <<>> THEN 0
    ELSE Head(bytes) + 256 * unpack_le(Tail(bytes))

\* The claimed encoding of one string: length of the UTF-8 bytes plus 1,
\* the bytes, one NUL
NulTerminated(s) ==
    pack_le(Len(encode_utf8(s)) + 1, 4) \o encode_utf8(s) \o <<0>>

\* C11 (as claimed): each string written to the preset payload is encoded as
\* a 4-byte little-endian length of its UTF-8 bytes plus 1, the bytes and one
\* trailing NUL; the length always counts the NUL and the NUL is always there.
C11_StringsNulTerminated ==
    /\ (preset_fn = "_put_string"
          => preset_result.data = NulTerminated(preset_args.s))
    /\ (preset_fn = "create_nam_state" /\ preset_result.ok
          => LET strings == NulTerminated(NAM_MARKER)
                            \o NulTerminated(preset_args.version)
                            \o NulTerminated(preset_args.nam_path)
                            \o NulTerminated(preset_args.ir_path)
             IN  /\ Len(preset_result.data) = Len(strings) + 96
                 /\ SubSeq(preset_result.data, 1, Len(strings)) = strings)

\* C11, the part that holds: a string that is not empty is encoded that way
C11_NonEmptyStringsNulTerminated ==
    preset_fn = "_put_string" /\ preset_args.s # <<>>
        => preset_result.data = NulTerminated(preset_args.s)

\* C12: for a 32-character (ASCII) class id and a component state of length
\* L, the preset is the 48-byte header, the state and a 28-byte chunk index;
\* the header's chunk-index offset is 48 + L, the index has one entry, whose
\* payload offset is 48 and payload length is L.
C12_PresetLayout ==
    preset_fn = "create_vst3_preset"
        => LET class_id == preset_args.class_id
               state == preset_args.component_state
               L == Len(state)
               data == preset_result.data
           IN  /\ (Len(class_id) = 32 /\ IsAscii(class_id) => preset_result.ok)
               /\ (preset_result.ok =>
                     /\ Len(data) = 48 + L + 28
                     /\ SubSeq(data, 1, 4) = VST3_MAGIC
                     /\ unpack_le(SubSeq(data, 5, 8)) = 1
                     /\ SubSeq(data, 9, 40) = class_id
                     /\ unpack_le(SubSeq(data, 41, 48)) = 48 + L
                     /\ SubSeq(data, 49, 48 + L) = state
                     /\ SubSeq(data, 48 + L + 1, 48 + L + 4) = LIST_ID
                     /\ unpack_le(SubSeq(data, 48 + L + 5, 48 + L + 8)) = 1
                     /\ SubSeq(data, 48 + L + 9, 48 + L + 12) = COMP_ID
                     /\ unpack_le(SubSeq(data, 48 + L + 13, 48 + L + 20)) = 48
                     /\ unpack_le(SubSeq(data, 48 + L + 21, 48 + L + 28)) = L)

C12_Witness ==
    /\ preset_fn = "create_vst3_preset"
    /\ preset_result.ok
    /\ Len(preset_args.component_state) > 96

\* C13 (as claimed): a parameter vector whose length is not 12, or a class id
\* that is not exactly 32 ASCII characters, is rejected with a preset error
\* and no bytes are produced.
C13_RejectedWithPresetError ==
    /\ (( /\ preset_fn \in {"create_nam_state", "generate_preset_bytes"}
           /\ preset_args.parameters # None
           /\ Len(preset_args.parameters[1]) # 12
           /\ (preset_fn = "generate_preset_bytes" => preset_args.exists) )
          => preset_result = PresetRaise("PresetGenerationError"))
    /\ (( /\ preset_fn = "create_vst3_preset"
           /\ ~(Len(preset_args.class_id) = 32 /\ IsAscii(preset_args.class_id)) )
          => preset_result = PresetRaise("PresetGenerationError"))

\* C13, the part that holds: such input produces no bytes, and bytes that are
\* produced have a 96-byte parameter block and a 32-character ASCII class id
C13_NoBytesProduced ==
    /\ (( /\ preset_fn \in {"create_nam_state", "generate_preset_bytes"}
           /\ preset_args.parameters # None
           /\ Len(preset_args.parameters[1]) # 12 )
          => ~preset_result.ok /\ preset_result.data = <<>>)
    /\ (( /\ preset_fn = "create_vst3_preset"
           /\ ~(Len(preset_args.class_id) = 32 /\ IsAscii(preset_args.class_id)) )
          => ~preset_result.ok /\ preset_result.data = <<>>)
    /\ (preset_fn = "create_vst3_preset" /\ preset_result.ok
          => /\ Len(SubSeq(preset_result.data, 9, 40)) = 32
             /\ IsAscii(SubSeq(preset_result.data, 9, 40)))
    /\ (preset_fn = "create_nam_state" /\ preset_result.ok
          => Len(preset_result.data)
               = Len(put_string(NAM_MARKER)) + Len(put_string(preset_args.version))
                 + Len(put_string(preset_args.nam_path))
                 + Len(put_string(preset_args.ir_path)) + 12 * 8)

\* The position of the first colon of a token that has one
FirstColon(token) ==
    CHOOSE k \in 1..Len(token) :
        token[k] = ":" /\ \A j \in 1..(k-1) : token[j] # ":"

\* The effect a well-formed token stands for
EffectOfToken(token) ==
    [effect_type |-> Lower(Strip(SubSeq(token, 1, FirstColon(token) - 1))),
     value |-> Strip(SubSeq(token, FirstColon(token) + 1, Len(token)))]

WellFormed(token) ==
    /\ ~NoColon(token)
    /\ EffectOfToken(token).effect_type \in valid_types

\* C14: chain text made of n well-formed tokens parses to exactly n effects
\* in the order of the tokens, each with the trimmed, lower-cased text before
\* the token's first colon as type and the trimmed text after that colon as
\* value (a later colon stays in the value).
C14_EffectsInTokenOrder ==
    parse_result # NotCalled =>
        LET tokens == TokensOf(chain_str)
        IN  (\A i \in 1..Len(tokens) : WellFormed(tokens[i]))
              => /\ parse_result.ok
                 /\ Len(parse_result.effects) = Len(tokens)
                 /\ \A i \in 1..Len(tokens) :
                       parse_result.effects[i] = EffectOfToken(tokens[i])

\* C14 witness: three well-formed tokens, one padded and in upper case, one
\* with a second colon, one with an empty value
C14_Witness ==
    /\ chain_str = Join(<< <<" ","I","R"," ",":"," ","x"," ">>,
                           <<"i","r",":","x",":","y">>,
                           <<"e","q",":">> >>)
    /\ parse_result.ok
    /\ parse_result.effects =
          << [effect_type |-> <<"i","r">>, value |-> <<"x">>],
             [effect_type |-> <<"i","r">>, value |-> <<"x",":","y">>],
             [effect_type |-> <<"e","q">>, value |-> <<>>] >>

\* The power of the buffer normalize_rms returned
OutputPower ==
    RatMul(Rat(SumSquares(norm_audio), Len(norm_audio) * FullScale * FullScale),
           norm_result.gain_power)

\* The peak power of the buffer normalize_rms returned
OutputPeakPower ==
    RatMul(Rat(MaxAbs(norm_audio) * MaxAbs(norm_audio), FullScale * FullScale),
           norm_result.gain_power)

TargetPower == Rat(db_to_power(norm_target_db), PowerScale)

\* Two powers differ by at most 0.5 dB
WithinHalfDb(x, y) ==
    LET half == Rat(db_to_power(5), PowerScale)
    IN  /\ ~RatLess(RatMul(y, half), x)
        /\ ~RatLess(RatMul(x, half), y)

NormalizedNonSilent ==
    /\ norm_result.outcome = "return"
    /\ norm_audio # <<>>
    /\ SumSquares(norm_audio) # 0

\* C15 (as claimed): for every non-silent buffer and every target level the
\* buffer returned by normalize_rms has an RMS level within 0.5 dB of
\* target_db.
C15_RmsWithinHalfDb ==
    NormalizedNonSilent => WithinHalfDb(OutputPower, TargetPower)

\* C15 (amended): the RMS level is within 0.5 dB of target_db when the
\* buffer's peak at that level does not exceed the peak limit; otherwise the
\* buffer is scaled down so that its peak equals the peak limit and its RMS
\* level is below target_db.
C15_RmsWithinHalfDbUnlessLimited ==
    NormalizedNonSilent =>
        LET peak_limit == Rat(db_to_power(DEFAULT_PEAK_LIMIT_DB), PowerScale)
            peak_at_target ==
                RatMul(TargetPower,
                       Rat(MaxAbs(norm_audio) * MaxAbs(norm_audio) * Len(norm_audio),
                           SumSquares(norm_audio)))
        IN  IF RatLess(peak_limit, peak_at_target)
            THEN /\ norm_result.limited
                 /\ OutputPeakPower = peak_limit
                 /\ RatLess(OutputPower, TargetPower)
            ELSE /\ ~norm_result.limited
                 /\ WithinHalfDb(OutputPower, TargetPower)

\* C15 witness: a non-silent buffer brought to the target without limiting
C15_Witness ==
    /\ NormalizedNonSilent
    /\ ~norm_result.limited
    /\ norm_result.gain_power # <<1, 1>>
    /\ OutputPower = TargetPower

\* A buffer whose level stays more than 0.5 dB under the target after limiting
C15_LimitedBelowTarget ==
    /\ NormalizedNonSilent
    /\ norm_result.limited
    /\ norm_target_db = DEFAULT_OUTPUT_RMS_DB
    /\ ~WithinHalfDb(OutputPower, TargetPower)

\* The first channel of a 2-D array in the layout (channels, samples), and
\* in the layout (samples, channels)
FirstRow == metrics_audio.data[1]
FirstColumn == [i \in 1..Len(metrics_audio.data) |-> metrics_audio.data[i][1]]

MetricsOf2D == metrics_result # NoMetrics /\ metrics_audio.ndim = 2

\* C16 (as claimed): on multi-channel input every metric is computed from
\* the first channel only: the result equals extract_metrics of channel 0
\* alone, and duration_seconds is the per-channel sample count over the rate.
C16_FirstChannelOnly ==
    MetricsOf2D =>
        \E channel \in {FirstRow, FirstColumn} :
            /\ metrics_result =
                 extract_metrics([ndim |-> 1, data |-> channel],
                                 metrics_result.sample_rate)
            /\ metrics_result.duration_seconds =
                 <<Len(channel), metrics_result.sample_rate>>

\* C16 (amended): on multi-channel input every metric is computed from all
\* the samples of all channels, in row-major order: the result equals
\* extract_metrics of the flattened array, and duration_seconds is the total
\* number of samples over the rate.
C16_AllSamplesFlattened ==
    MetricsOf2D =>
        LET rows == Len(metrics_audio.data)
            columns == Len(metrics_audio.data[1])
            flat == [k \in 1..(rows * columns) |->
                        metrics_audio.data[((k - 1) \div columns) + 1]
                                          [((k - 1) % columns) + 1]]
        IN  /\ metrics_result =
                 extract_metrics([ndim |-> 1, data |-> flat],
                                 metrics_result.sample_rate)
            /\ metrics_result.analysed = flat
            /\ metrics_result.duration_seconds =
                 <<rows * columns, metrics_result.sample_rate>>

\* C16 witness: a two-channel array whose channels differ has been analysed
C16_Witness ==
    /\ MetricsOf2D
    /\ metrics_audio.data = << <<2, 0>>, <<-1, -1>> >>
    /\ metrics_result.duration_seconds = <<4, 44100>>
    /\ metrics_result.peak_dbfs.num = 2

\* The token is present and valid: a genuine JWT naming a user that exists
WsTokenValid ==
    /\ ws_token.text = "jwt"
    /\ ws_token.genuine
    /\ ws_token.sub \in WsUsers

\* The job exists and belongs to the token's user
WsJobOwned ==
    /\ ws_job_id \in DOMAIN WsJobOwner
    /\ WsJobOwner[ws_job_id] = ws_token.sub

\* C17: the connection is accepted and subscribed to the job's progress
\* channel only if a token is present and valid and the job exists and
\* belongs to the token's user; otherwise it is closed (4001 for a missing
\* or invalid token, 4004 for an unknown or foreign job) without being
\* accepted, without subscribing and without any job data sent.
C17_OnlyOwnerIsSubscribed ==
    /\ (ws_conn = "accepted" \/ ws_ever_subscribed \/ ws_sent # <<>>
          => WsTokenValid /\ WsJobOwned)
    /\ (\A i \in 1..Len(ws_sent) : ws_sent[i].job_id = ws_job_id)
    /\ (ws_pc = "done" /\ ~(WsTokenValid /\ WsJobOwned)
          => /\ ws_conn = "closed"
             /\ ws_close_code = IF WsTokenValid THEN 4004 ELSE 4001
             /\ ~ws_ever_subscribed
             /\ ws_sent = <<>>)
    /\ (ws_pc = "done" /\ WsTokenValid /\ WsJobOwned
          => ws_ever_subscribed /\ ws_close_code = NoClose)

\* C17 witness: a valid token of another user asked for job j1 and was
\* closed with 4004 while progress of j1 was being published
C17_Witness ==
    /\ ws_pc = "done"
    /\ ws_token = [text |-> "jwt", genuine |-> TRUE, sub |-> "u2"]
    /\ ws_job_id = "j1"
    /\ ws_close_code = 4004
    /\ ws_published > 0
    /\ ws_sent = <<>>

\* An owner's connection was accepted and received progress of its job
C17_OwnerServed ==
    /\ ws_pc = "done"
    /\ WsTokenValid /\ WsJobOwned
    /\ Len(ws_sent) >= 2

\* C18 (as claimed): once a job's status is COMPLETED, FAILED or CANCELLED
\* it never changes again, under any interleaving of a cancel request with
\* the worker's updates.
C18_TerminalStatusIsFinal ==
    [][job.status \in TerminalStatuses => job'.status = job.status]_vars

\* A cancelled job was set running again by the worker
C18_CancelledJobRunsAgain ==
    /\ job.status = "running"
    /\ cancel_result = "cancelled"
    /\ cancel_pc = "done"

\* C19 (as claimed): cancel_job moves a job to CANCELLED only when the job
\* is owned by the caller and its status is PENDING or QUEUED; for a job in
\* any other status it returns None.
C19_CancelsOnlyPendingOrQueued ==
    cancel_pc = "done" /\ cancels_made > 0 =>
        /\ (cancel_result = "cancelled"
              => /\ cancel_user = JobOwner
                 /\ cancel_seen[1].status \in {"pending", "queued"})
        /\ (cancel_seen # None
            /\ cancel_seen[1].status \in {"running", "completed", "failed", "cancelled"}
              => cancel_result = "None")

\* C19, the part that holds: only the owner's jobs that are PENDING, QUEUED
\* or RUNNING are cancelled; every other call returns None.
C19_CancelsOnlyUnfinished ==
    cancel_pc = "done" /\ cancels_made > 0 =>
        (cancel_result = "cancelled"
           <=> /\ cancel_user = JobOwner
               /\ cancel_seen[1].status \in {"pending", "queued", "running"})

LastPublished ==
    IF published = <<>> THEN "nothing" ELSE published[Len(published)].status

\* C20 (as claimed): every execution of process_shootout_task ends with one
\* terminal outcome, the same in the database and on the progress channel:
\* COMPLETED, progress 100 and "completed" if the task returns, FAILED and
\* "failed" if it raises; the job is never left RUNNING.
C20_OneTerminalOutcome ==
    /\ (task_pc = "returned"
          => /\ job.status = "completed"
             /\ job.progress = 100
             /\ LastPublished = "completed")
    /\ (task_pc = "raised"
          => /\ job.status = "failed"
             /\ LastPublished = "failed")
    /\ (task_pc \in {"returned", "raised"} => job.status # "running")

\* A task that returned while the job row says CANCELLED
C20_ReturnedButCancelled ==
    /\ task_pc = "returned"
    /\ job.status = "cancelled"
    /\ LastPublished = "completed"

-----------------------------------------------------------------------------
(* C21 *)

\* The client has been sent a message that carries a terminal status
TerminalMessageSent ==
    \E i \in 1..Len(ws_sent) : ws_sent[i].status \in TerminalStatuses

\* The handler has returned after relaying a terminal status, which ends the
\* connection from the server's side
ClosedByServer ==
    ws_pc = "done" /\ ws_conn = "accepted" /\ TerminalMessageSent

\* C21: every client whose WebSocket was accepted for the job eventually
\* receives a message carrying a terminal status and has the connection
\* closed by the server once the job has reached that status (a client that
\* went away by itself is not owed anything)
C21_AcceptedClientIsReleased ==
    (ws_conn = "accepted" /\ job.status \in TerminalStatuses)
        ~> (ClosedByServer \/ ws_conn = "closed")

\* The handler waits on a channel on which nothing more will be published:
\* the task and every cancel request have finished
C21_ListensForever ==
    /\ ws_pc = "listen"
    /\ ws_conn = "accepted"
    /\ job.status \in TerminalStatuses
    /\ task_pc \in {"returned", "raised"}
    /\ cancel_pc # "write"
    /\ ws_cursor > Len(published)

\* ... in particular after a cancellation, which publishes nothing
C21_CancelledUnnoticed ==
    /\ C21_ListensForever
    /\ job.status = "cancelled"
    /\ ws_snapshot \notin TerminalStatuses

\* A terminal status that is published while the connection is subscribed is
\* relayed and ends the handler
C21_PublishedTerminalIsRelayed ==
    (/\ ws_pc = "listen"
     /\ ws_cursor <= Len(published)
     /\ \E i \in ws_cursor..Len(published) :
           published[i].status \in TerminalStatuses)
        ~> (ClosedByServer \/ ws_conn = "closed")

-----------------------------------------------------------------------------
(* C24 *)

\* C24: at every point the job has completed_at set if and only if its
\* status is COMPLETED, FAILED or CANCELLED
C24_CompletedAtIffTerminal ==
    (job.completed_at # 0) <=> (job.status \in TerminalStatuses)

\* One direction holds: a job in a terminal status has completed_at set
C24_TerminalHasCompletedAt ==
    (job.status \in TerminalStatuses) => (job.completed_at # 0)

\* A job that is RUNNING again after it was ended still carries the
\* completed_at of that ending
C24_RunningWithCompletedAt ==
    job.status = "running" /\ job.completed_at # 0

-----------------------------------------------------------------------------
(* C25 *)

\* Every published progress value is a percentage
ProgressInRange ==
    \A i \in 1..Len(published) : published[i].progress \in 0..100

\* C25: the progress values published during one execution of the task are
\* non-decreasing and within 0..100, on the success path and on every
\* failure path
C25_ProgressNonDecreasing ==
    /\ ProgressInRange
    /\ \A i, j \in 1..Len(published) :
          i < j => published[i].progress <= published[j].progress

\* C25 as the task behaves: the values of the "running" and "completed"
\* messages are non-decreasing and within 0..100; a "failed" message is the
\* last one and carries progress 0, whatever was reported before it
C25_ProgressNonDecreasingUntilFailed ==
    /\ ProgressInRange
    /\ \A i, j \in 1..Len(published) :
          (i < j /\ published[j].status # "failed")
              => published[i].progress <= published[j].progress
    /\ \A i \in 1..Len(published) :
          published[i].status = "failed"
              => (i = Len(published) /\ published[i].progress = 0)

\* A failure path: the task has raised after reporting 15 percent, and the
\* "failed" message was published
C25_Witness ==
    /\ task_pc = "raised"
    /\ Len(published) >= 2
    /\ published[Len(published)].status = "failed"
    /\ published[Len(published) - 1] = [status |-> "running", progress |-> 15]

\* The success path with every message published
C25_SuccessPath ==
    /\ task_pc = "returned"
    /\ Len(published) = Len(ProgressSteps) + 2
    /\ published[Len(published)] = [status |-> "completed", progress |-> 100]

-----------------------------------------------------------------------------
(* C22 *)

\* No two active worktrees share a port offset
NoSharedActiveOffset ==
    \A r1, r2 \in ActiveRows(worktrees) : r1.offset = r2.offset => r1 = r2

\* The row process p is about to insert
RowOf(p) ==
    NewRow(reg_local[p].branch, reg_local[p].worktree_name, reg_local[p].offset)

\* The INSERT of p is executed in this step and raises / succeeds
RegisterFails(p) ==
    reg_pc[p] = "register" /\ reg_pc'[p] = "idle"
RegisterSucceeds(p) ==
    reg_pc[p] = "register" /\ reg_pc'[p] \in {"create", "start"}

\* p and q were both handed the same free offset, for different branches
\* that have no row yet, and neither has inserted
RaceForOffset(p, q) ==
    /\ p # q
    /\ reg_pc[p] = "register" /\ reg_pc[q] = "register"
    /\ reg_local[p].offset = reg_local[q].offset
    /\ reg_local[p].branch # reg_local[q].branch
    /\ ~IntegrityViolation(worktrees, RowOf(p))
    /\ ~IntegrityViolation(worktrees, RowOf(q))

\* C22: at all times no two active worktrees share a port offset, under any
\* interleaving of setup, teardown and prune by concurrent processes; of two
\* registrations that race for the same offset the first INSERT succeeds and
\* from then on the other's INSERT raises, and an INSERT that raises creates
\* no registry row
C22_ActiveOffsetsUnique ==
    /\ []NoSharedActiveOffset
    /\ [][\A p, q \in RegProcs :
             (RaceForOffset(p, q) /\ reg_pc'[p] # reg_pc[p])
                 => /\ RegisterSucceeds(p)
                    /\ worktrees' = worktrees \cup {RowOf(p)}
                    /\ IntegrityViolation(worktrees', RowOf(q))]_vars
    /\ [][\A p \in RegProcs :
             RegisterFails(p)
                 => /\ worktrees' = worktrees
                    /\ reg_local'[p].result = "WorktreeExistsError"]_vars

\* A race that was lost: q was handed the offset of p's active row, its
\* INSERT raised, and no row exists for q's branch or worktree name
C22_Witness ==
    \E p, q \in RegProcs :
        /\ p # q
        /\ reg_local[q].cmd = "setup"
        /\ reg_local[q].result = "WorktreeExistsError"
        /\ reg_local[p].cmd = "setup"
        /\ reg_local[p].offset = reg_local[q].offset
        /\ reg_local[p].branch # reg_local[q].branch
        /\ RowOf(p) \in worktrees
        /\ \A r \in worktrees :
              /\ r.branch # reg_local[q].branch
              /\ r.worktree_name # reg_local[q].worktree_name

-----------------------------------------------------------------------------
(* C26 *)

\* C26: after a worktree has been marked removed, its branch and worktree
\* name can be registered again by a later setup: a registration is refused
\* only because of rows that are active
C26_RemovedCanBeRegisteredAgain ==
    \A p \in RegProcs :
        (reg_pc[p] = "register" /\ IntegrityViolation(worktrees, RowOf(p)))
            => IntegrityViolation(ActiveRows(worktrees), RowOf(p))

\* The offset of a removed worktree is available for reuse: unless an
\* active worktree holds it, find_available_offset hands out that offset or
\* a smaller one, and a row of a branch without rows is accepted with it
C26_RemovedOffsetIsAvailable ==
    \A r \in worktrees \ ActiveRows(worktrees) :
        (\A a \in ActiveRows(worktrees) : a.offset # r.offset)
            => /\ find_available_offset(worktrees) \in 0..r.offset
               /\ \A b \in Branches :
                     (\A x \in worktrees :
                         /\ x.branch # b
                         /\ x.worktree_name # generate_worktree_name(b))
                         => ~IntegrityViolation(
                                worktrees,
                                NewRow(b, generate_worktree_name(b), r.offset))

\* A setup of a branch whose only row is removed has ended with
\* WorktreeExistsError, by prune or by mark_worktree_removed
C26_ReRegistrationRefused ==
    \E p \in RegProcs :
        /\ reg_local[p].cmd = "setup"
        /\ reg_local[p].result = "WorktreeExistsError"
        /\ get_worktree(worktrees, reg_local[p].branch) = {}
        /\ \A a \in ActiveRows(worktrees) : a.offset # reg_local[p].offset
        /\ \E r \in worktrees :
              r.status = "removed" /\ r.branch = reg_local[p].branch

-----------------------------------------------------------------------------
(* C27 *)

\* Setup of p has ended with failure after its INSERT
SetupFailedAfterRegistering(p) ==
    /\ reg_pc[p] = "idle"
    /\ reg_local[p].cmd = "setup"
    /\ reg_local[p].result \in {"GitError", "Failed to start services"}

\* C27: if setup exits with failure after the worktree was registered, no
\* active registry entry (and so no reserved offset) remains for it
C27_FailedSetupLeavesNoEntry ==
    \A p \in RegProcs :
        SetupFailedAfterRegistering(p)
            => get_worktree(worktrees, reg_local[p].worktree_name) = {}

\* C27 as setup behaves: when the git worktree cannot be created, the
\* rollback leaves no row, active or removed, under the worktree's name;
\* when the services fail to start, setup ends with failure and leaves the
\* registry as it is
C27_RollbackOnGitErrorOnly ==
    /\ [][\A p \in RegProcs :
             (reg_pc[p] = "rollback" /\ reg_pc'[p] = "idle")
                 => /\ reg_local'[p].result = "GitError"
                    /\ \A r \in worktrees' :
                          r.worktree_name # reg_local[p].worktree_name]_vars
    /\ [][\A p \in RegProcs :
             (reg_pc[p] = "start" /\ reg_pc'[p] = "idle")
                 => worktrees' = worktrees]_vars

\* A setup that was rolled back: it had inserted its row at the offset it
\* still remembers, git failed, and no row of its name is left
C27_Witness ==
    \E p \in RegProcs :
        /\ SetupFailedAfterRegistering(p)
        /\ reg_local[p].result = "GitError"
        /\ reg_local[p].offset # NoOffset
        /\ \A r \in worktrees : r.worktree_name # reg_local[p].worktree_name

\* A setup that failed to start its services while its row is active
C27_FailedButRegistered ==
    \E p \in RegProcs :
        /\ SetupFailedAfterRegistering(p)
        /\ reg_local[p].result = "Failed to start services"
        /\ RowOf(p) \in ActiveRows(worktrees)

-----------------------------------------------------------------------------
(* C23 *)

\* C23: at all times the file stored at the model's cache path, if any, has
\* passed validation, even when several download_model calls for the same
\* model run concurrently
C23_CacheEntryIsValid ==
    dl_cache \in {"absent", "valid"}

\* No temporary file is left behind once every call has ended
C23_NoTemporaryFileLeft ==
    (\A d \in Downloaders : dl_pc[d] = "idle") => dl_temp = "absent"

\* A call that ends with ModelDownloadError has not changed the cache entry
\* in its last step
C23_FailedCallWritesNoCacheEntry ==
    [][\A d \in Downloaders :
          (dl_pc[d] # "idle" /\ dl_pc'[d] = "idle"
           /\ dl_local'[d].result = "ModelDownloadError")
              => dl_cache' = dl_cache]_vars

\* The call whose content was valid has put the other call's invalid
\* content into the cache
C23_InvalidFileCached ==
    \E d \in Downloaders :
        /\ dl_cache = "invalid"
        /\ dl_local[d].content = "valid"
        /\ dl_local[d].result = "downloaded"

=============================================================================
